---------------------------- MODULE Spec2Model ----------------------------
(***************************************************************************)
(* State-machine model of the INI temporal-mean-rate simulator of          *)
(* snn_toolbox: the spiking layer (SpikeLayer) and the timestepped         *)
(* simulation loop (SNN.simulate), plus the event iterator (DVSIterator).  *)
(*                                                                         *)
(* Numbers.  Potentials, inputs and thresholds are fixed-point: the real   *)
(* value 1.0 is the integer One == 100 * L, with L the least common        *)
(* multiple of 1..MaxSteps, so that base/100 and every quotient            *)
(* max(spikecounts) * dt / time the code forms are exact integers.         *)
(* Floating-point rounding is not modelled.  Tensors are functions over    *)
(* Neurons; the batch holds one sample.                                    *)
(***************************************************************************)
EXTENDS Integers, Sequences, FiniteSets, TLC

\* ---------------------------------------------------------------- bounds
NumNeurons == 2
NumLayers == 2
MaxSteps == 2
RateSteps == 10
MaxSamples == 2
MaxBudgetTurns == 4
NumEventsPerSample == 3
MaxFileLen == NumEventsPerSample + 1
RasterSide == 5
NumFiles == 2
MaxBatchSize == 2
MaxUpdates == 2
eventframe_width == 1
MaxPending == 5
pool_size == 2

Neurons == 1..NumNeurons
Layers == 1..NumLayers

RECURSIVE Gcd(_, _)
Gcd(a, b) == IF b = 0 THEN a ELSE Gcd(b, a % b)

RECURSIVE LcmUpTo(_)
LcmUpTo(n) == IF n <= 1 THEN 1 ELSE LET m == LcmUpTo(n - 1) IN (m * n) \div Gcd(m, n)

L == LcmUpTo(MaxSteps)
One == 100 * L

Abs(a) == IF a < 0 THEN -a ELSE a
Sign(a) == IF a > 0 THEN 1 ELSE IF a < 0 THEN -1 ELSE 0
Zeros == [n \in Neurons |-> 0]

RECURSIVE SumOver(_, _)
SumOver(f, S) == IF S = {} THEN 0 ELSE LET n == CHOOSE m \in S : TRUE IN f[n] + SumOver(f, S \ {n})

Sum(f) == SumOver(f, DOMAIN f)
MaxOf(f) == CHOOSE v \in {f[n] : n \in DOMAIN f} : \A n \in DOMAIN f : f[n] <= v
CountNonzero(f) == Cardinality({n \in DOMAIN f : f[n] # 0})
\* np.argmax: the first index holding the maximum.
ArgMax(f) == CHOOSE n \in DOMAIN f : f[n] = MaxOf(f) /\ \A m \in DOMAIN f : f[m] = MaxOf(f) => n <= m

\* ------------------------------------------------------------ the state
VARIABLES
    cfg,                  \* the configuration (constant during a run)
    layers,               \* layers[l]: the variables of spiking layer l
    pc,                   \* position of the run: idle, ready, budget, loop, break
    sample_idx,           \* index of the sample (batch) being simulated
    sim_step_int,         \* loop index of SNN.simulate
    num_timesteps,        \* the step limit of the current sample
    x_b_l,                \* analog input of the sample
    input_b_l,            \* input frame of the current step
    truth_b,              \* true class of the sample
    output_b_l_t,         \* output_b_l_t[t][n]: output spike flag of step t
    spiketrains_n_b_l_t,  \* spiketrains_n_b_l_t[l][t][n]: recorded spike times
    clean_guesses_b,      \* guessed class (sentinel -1 when undecided)
    current_acc,          \* 1 when the guess equals the truth, else 0
    input_spikecount,     \* Poisson events emitted in this sample
    x_accum,              \* accumulator of _get_timestep_at_spikecount
    t_budget,             \* loop counter of _get_timestep_at_spikecount
    rng_draws,            \* random draws made for this sample
    hist,                 \* what the last operation did and returned
    dvs_pc,               \* position of the event iterator: next, loaded, stop
    dvs_sample,           \* the loaded event sequence: <<x, y>> addresses
    num_events_of_sample, \* its length, as the iterator recorded it
    dvs_sample_idx,       \* index of the loaded file (-1: none yet)
    batch_idx,            \* batches taken from the loaded sequence
    x_b_xaddr,            \* the x addresses of the batch returned last
    x_b_yaddr,            \* the y addresses of the batch returned last
    x_b_ts,               \* the timestamps of the batch returned last
    dvs_obs,              \* the raster of the last batch, before and after clipping
    driver,               \* the program that runs: SNN.simulate or the older SNN.run
    settings_batch_size,  \* settings['batch_size'], the stored batch size
    run                   \* the local state of SNN.run

vars == <<cfg, layers, pc, sample_idx, sim_step_int, num_timesteps, x_b_l, input_b_l,
          truth_b, output_b_l_t, spiketrains_n_b_l_t, clean_guesses_b, current_acc,
          input_spikecount, x_accum, t_budget, rng_draws, hist, dvs_pc, dvs_sample,
          num_events_of_sample, dvs_sample_idx, batch_idx, x_b_xaddr, x_b_yaddr, x_b_ts,
          dvs_obs, driver, settings_batch_size, run>>

simVars == <<cfg, layers, pc, sample_idx, sim_step_int, num_timesteps, x_b_l, input_b_l,
             truth_b, output_b_l_t, spiketrains_n_b_l_t, clean_guesses_b, current_acc,
             input_spikecount, x_accum, t_budget, rng_draws, hist>>

dvsVars == <<dvs_pc, dvs_sample, num_events_of_sample, dvs_sample_idx, batch_idx, x_b_xaddr,
             x_b_yaddr, x_b_ts, dvs_obs>>

runVars == <<driver, settings_batch_size, run>>

\* ------------------------------------------------------- the spiking layer

\* _num_timesteps = int(duration / dt)
NumTimesteps(c) == c.duration \div c.dt

\* SpikeLayer.init_membrane_potential, mode 'zero'
init_membrane_potential == Zeros

\* The layer classes that are no SpikeLayer: they have no init_neurons, their
\* get_time returns None and their reset does nothing.
PlainClasses == {"SpikeConcatenate", "SpikeFlatten", "SpikeZeroPadding2D", "SpikeReshape"}

\* SpikeLayer.init_neurons: the variables of a layer after construction. A
\* layer of a plain class is given the same record, of which it only ever
\* uses spikes, the output of its call.
init_neurons(c, l) ==
    [class_name |-> c.layer_class[l],
     activation_str |-> c.activation_str[l], time |-> c.dt, mem |-> init_membrane_potential, mem_acc |-> init_membrane_potential,
     mem_input |-> init_membrane_potential, refrac_until |-> Zeros, spiketrain |-> Zeros,
     payloads |-> Zeros, payloads_sum |-> Zeros, spikecounts |-> Zeros,
     max_spikerate |-> 0, v_thresh |-> One, impulse |-> Zeros, spikes |-> Zeros,
     bias |-> 0]

\* A reset that fires for every sample.
do_reset_every(c, sample) == TRUE

\* do_reset of SpikeLayer.reset_spikevars
do_reset(c, sample) ==
    LET mod == IF c.reset_between_nth_sample # 0 THEN c.reset_between_nth_sample ELSE sample + 1
    IN  sample % mod = 0

\* A reset that saves the membrane potential into the accumulator before it
\* clears it: a second reset then finds another potential to save.
reset_spikevars_saving(c, s, sample) ==
    LET fire == do_reset(c, sample) IN
    [s EXCEPT
       !.mem = IF fire THEN init_membrane_potential ELSE @,
       !.mem_acc = IF fire THEN s.mem ELSE @,
       !.mem_input = IF fire THEN init_membrane_potential ELSE @,
       !.time = IF fire THEN c.dt ELSE @,
       !.refrac_until = IF c.tau_refrac > 0 THEN Zeros ELSE @,
       !.spiketrain = IF c.log_spiketrains THEN Zeros ELSE @,
       !.payloads = IF c.payloads THEN Zeros ELSE @,
       !.payloads_sum = IF c.payloads THEN Zeros ELSE @,
       !.spikecounts = IF c.online_normalization /\ fire THEN Zeros ELSE @,
       !.max_spikerate = IF c.online_normalization /\ fire THEN 0 ELSE @,
       !.v_thresh = IF c.online_normalization /\ fire THEN One ELSE @]

\* SpikeLayer.reset_spikevars
reset_spikevars(c, s, sample) ==
    LET fire == do_reset(c, sample) IN
    [s EXCEPT
       !.mem = IF fire THEN init_membrane_potential ELSE @,
       !.mem_acc = IF fire THEN init_membrane_potential ELSE @,
       !.mem_input = IF fire THEN init_membrane_potential ELSE @,
       !.time = IF fire THEN c.dt ELSE @,
       !.refrac_until = IF c.tau_refrac > 0 THEN Zeros ELSE @,
       !.spiketrain = IF c.log_spiketrains THEN Zeros ELSE @,
       !.payloads = IF c.payloads THEN Zeros ELSE @,
       !.payloads_sum = IF c.payloads THEN Zeros ELSE @,
       !.spikecounts = IF c.online_normalization /\ fire THEN Zeros ELSE @,
       !.max_spikerate = IF c.online_normalization /\ fire THEN 0 ELSE @,
       !.v_thresh = IF c.online_normalization /\ fire THEN One ELSE @]

\* SpikeLayer.get_new_thresh; max_spikerate is kept in units of 1/L and
\* r_lim = 1/dt, so (thr_max - thr_min) * max_spikerate / r_lim is
\* 99 * L * (max_spikerate / L) * dt.
get_new_thresh(c, s) ==
    LET thr_min == One \div 100
        thr_max == One
    IN  thr_min + (((thr_max - thr_min) \div L) * s.max_spikerate) * c.dt

\* A refractory gate with the comparison turned round and no test of tau_refrac.
masked_impulse_inverted(c, s) ==
    [n \in Neurons |-> IF s.refrac_until[n] <= s.time THEN 0 ELSE s.impulse[n]]

\* A refractory gate that still holds at the step at which the period ends.
masked_impulse_late(c, s) ==
    [n \in Neurons |->
        IF c.tau_refrac = 0 THEN s.impulse[n]
        ELSE IF s.refrac_until[n] >= s.time THEN 0 ELSE s.impulse[n]]

\* The refractory gate of SpikeLayer.get_new_mem.
masked_impulse(c, s) ==
    [n \in Neurons |->
        IF c.tau_refrac = 0 THEN s.impulse[n]
        ELSE IF s.refrac_until[n] > s.time THEN 0 ELSE s.impulse[n]]

\* An integration whose accumulator leaks with the membrane potential.
get_new_mem_leaking_acc(c, s) ==
    LET m == masked_impulse(c, s)
        leak(a) == IF c.leak /\ a > 0 THEN a - (One \div 10) * c.dt ELSE a
    IN  <<[n \in Neurons |-> leak(s.mem[n] + m[n])],
          [n \in Neurons |-> leak(s.mem_acc[n] + m[n])]>>

\* SpikeLayer.get_new_mem: <<new_mem, new_mem_acc>>
get_new_mem(c, s) ==
    LET m == masked_impulse(c, s)
        added == [n \in Neurons |-> s.mem[n] + m[n]]
        leaked == [n \in Neurons |->
                     IF c.leak /\ added[n] > 0 THEN added[n] - (One \div 10) * c.dt
                     ELSE added[n]]
    IN  <<leaked, [n \in Neurons |-> s.mem_acc[n] + m[n]]>>

\* A linear activation that needs the potential to exceed the threshold.
linear_activation_strict(mem, v) == [n \in Neurons |-> IF mem[n] > v THEN v ELSE 0]

\* SpikeLayer.linear_activation
linear_activation(mem, v) == [n \in Neurons |-> IF mem[n] >= v THEN v ELSE 0]

pool_linear_activation(mem, v) ==
    [n \in Neurons |-> (IF mem[n] >= v THEN v ELSE 0) + (IF mem[n] <= -v THEN -v ELSE 0)]

binary_sigmoid_activation(mem, v) == [n \in Neurons |-> IF mem[n] > 0 THEN v ELSE 0]

binary_tanh_activation(mem, v) ==
    [n \in Neurons |-> (IF mem[n] > 0 THEN v ELSE 0) + (IF mem[n] < 0 THEN -v ELSE 0)]

\* A leaky-relu activation whose negative spike carries the size of its
\* firing threshold.
leakyrelu_activation_scaled(mem, v) ==
    [n \in Neurons |-> (IF mem[n] >= v THEN v ELSE 0) + (IF mem[n] <= -10 * v THEN -10 * v ELSE 0)]

\* SpikeLayer.leakyrelu_activation
leakyrelu_activation(mem, v) ==
    [n \in Neurons |-> (IF mem[n] >= v THEN v ELSE 0) + (IF mem[n] <= -10 * v THEN -v ELSE 0)]

\* rnd[n] is the outcome of random_uniform <= softmax(mem) for neuron n.
softmax_activation(mem, v, rnd) == [n \in Neurons |-> IF rnd[n] THEN v ELSE 0]

\* A quantized activation that also emits negative spikes.
quantized_activation_bipolar(mem, v) ==
    [n \in Neurons |-> (IF mem[n] >= v THEN v ELSE 0) + (IF mem[n] <= -v THEN -v ELSE 0)]

\* SpikeLayer.quantized_activation
quantized_activation(mem, v) == [n \in Neurons |-> IF mem[n] >= v THEN v ELSE 0]

\* Activation tags with a fixed-point format Qm.f appended.
QuantizedTags == {"relu_Q1.2", "relu_Q8.0", "linear_Q2.4"}

\* '_Q' in self.activation_str
IsQuantized(a) == a \in QuantizedTags

\* 'Pooling' in self.name
IsPooling(name) == name = "SpikeMaxPooling2D"

\* The dispatch of SpikeLayer.update_neurons on activation_str.
output_spikes(c, s, new_mem, rnd) ==
    LET a == s.activation_str
        v == s.v_thresh
    IN  IF a = "softmax" THEN softmax_activation(new_mem, v, rnd)
        ELSE IF a = "binary_sigmoid" THEN binary_sigmoid_activation(new_mem, v)
        ELSE IF a = "binary_tanh" THEN binary_tanh_activation(new_mem, v)
        ELSE IF a = "leakyrelu" THEN leakyrelu_activation(new_mem, v)
        ELSE IF IsQuantized(a) THEN quantized_activation(new_mem, v)
        ELSE IF IsPooling(s.class_name) \/ a = "linear" \/ a = "sigmoid"
             THEN pool_linear_activation(new_mem, v)
        ELSE linear_activation(new_mem, v)

\* A reset that does not test whether payloads are relayed.
set_reset_mem_no_override(c, s, mem, spikes) ==
    LET v == s.v_thresh IN
    [n \in Neurons |->
        IF s.activation_str = "softmax" THEN (IF spikes[n] # 0 THEN 0 ELSE mem[n])
        ELSE IF c.reset = "Reset by subtraction" THEN
            IF s.activation_str = "leakyrelu" THEN
                LET new == IF spikes[n] > 0 THEN mem[n] - v ELSE mem[n]
                IN  IF spikes[n] < 0 THEN new + 10 * v ELSE new
            ELSE
                LET new == IF spikes[n] > 0 THEN mem[n] - v ELSE mem[n]
                IN  IF spikes[n] < 0 THEN new + v ELSE new
        ELSE IF c.reset = "Reset by modulo" THEN (IF spikes[n] # 0 THEN mem[n] % v ELSE mem[n])
        ELSE (IF spikes[n] # 0 THEN 0 ELSE mem[n])]

\* A reset by subtraction that treats leaky-relu layers as every other
\* layer: a negative spike adds one threshold back.
set_reset_mem_symmetric(c, s, mem, spikes) ==
    LET v == s.v_thresh IN
    [n \in Neurons |->
        IF s.activation_str = "softmax" THEN (IF spikes[n] # 0 THEN 0 ELSE mem[n])
        ELSE IF c.reset = "Reset by subtraction" THEN
            IF c.payloads THEN (IF spikes[n] # 0 THEN 0 ELSE mem[n])
            ELSE LET new == IF spikes[n] > 0 THEN mem[n] - v ELSE mem[n]
                 IN  IF spikes[n] < 0 THEN new + v ELSE new
        ELSE IF c.reset = "Reset by modulo" THEN (IF spikes[n] # 0 THEN mem[n] % v ELSE mem[n])
        ELSE (IF spikes[n] # 0 THEN 0 ELSE mem[n])]

\* A reset that clears the potential of every neuron that spiked, whatever
\* the reset mechanism configured.
set_reset_mem_to_zero(c, s, mem, spikes) ==
    [n \in Neurons |-> IF spikes[n] # 0 THEN 0 ELSE mem[n]]

\* SpikeLayer.set_reset_mem: the membrane potential after the reset.
set_reset_mem(c, s, mem, spikes) ==
    LET v == s.v_thresh IN
    [n \in Neurons |->
        IF s.activation_str = "softmax" THEN (IF spikes[n] # 0 THEN 0 ELSE mem[n])
        ELSE IF c.reset = "Reset by subtraction" THEN
            IF c.payloads THEN (IF spikes[n] # 0 THEN 0 ELSE mem[n])
            ELSE IF s.activation_str = "leakyrelu" THEN
                LET new == IF spikes[n] > 0 THEN mem[n] - v ELSE mem[n]
                IN  IF spikes[n] < 0 THEN new + 10 * v ELSE new
            ELSE
                LET new == IF spikes[n] > 0 THEN mem[n] - v ELSE mem[n]
                IN  IF spikes[n] < 0 THEN new + v ELSE new
        ELSE IF c.reset = "Reset by modulo" THEN (IF spikes[n] # 0 THEN mem[n] % v ELSE mem[n])
        ELSE (IF spikes[n] # 0 THEN 0 ELSE mem[n])]

\* A refractory update that forgets to select the neurons that spiked.
new_refractory_all(c, s, spikes) ==
    [n \in Neurons |-> IF c.tau_refrac > 0 THEN s.time + c.tau_refrac ELSE s.refrac_until[n]]

\* The refractory update of SpikeLayer.update_neurons.
new_refractory(c, s, spikes) ==
    [n \in Neurons |->
        IF c.tau_refrac > 0 /\ spikes[n] # 0 THEN s.time + c.tau_refrac ELSE s.refrac_until[n]]

\* SpikeLayer.update_payload: <<payloads, payloads_sum>>
update_payload(s, residuals, spikes) ==
    <<[n \in Neurons |-> IF spikes[n] # 0 THEN residuals[n] - s.payloads_sum[n] ELSE s.payloads[n]],
      [n \in Neurons |-> IF spikes[n] # 0 THEN s.payloads_sum[n] + s.payloads[n]
                         ELSE s.payloads_sum[n]]>>

\* SpikeLayer.update_neurons, on a layer whose impulse is set.
update_neurons(c, s, x, rnd) ==
    LET nm == get_new_mem(c, s)
        new_mem == nm[1]
        spikes == output_spikes(c, s, new_mem, rnd)
        residuals == [n \in Neurons |-> IF spikes[n] # 0 THEN new_mem[n] - One ELSE new_mem[n]]
        pl == update_payload(s, residuals, spikes)
        counts == [n \in Neurons |-> s.spikecounts[n] + (IF spikes[n] # 0 THEN 1 ELSE 0)]
    IN  [s EXCEPT
           !.mem_acc = nm[2],
           !.mem = set_reset_mem(c, s, new_mem, spikes),
           !.mem_input = x,
           !.refrac_until = new_refractory(c, s, spikes),
           !.payloads = IF c.payloads THEN pl[1] ELSE @,
           !.payloads_sum = IF c.payloads THEN pl[2] ELSE @,
           !.spikecounts = IF c.online_normalization THEN counts ELSE @,
           !.max_spikerate = IF c.online_normalization
                             THEN (MaxOf(counts) * c.dt * L) \div s.time ELSE @,
           !.spiketrain = IF c.log_spiketrains
                          THEN [n \in Neurons |-> spikes[n] * s.time] ELSE @,
           !.spikes = spikes]

\* add_payloads: the payloads of the inbound neurons that spiked.
add_payloads(prev, input_spikes) ==
    [n \in Neurons |-> input_spikes[n] + (IF input_spikes[n] = 0 THEN 0 ELSE prev.payloads[n])]

\* Dense.call with the identity kernel and no bias.
call(x) == x

\* The pooling window of output position w: pool_size positions with stride
\* 1 and padding 'same', cut off at the borders of the layer.
Window(w) ==
    LET first == w - (pool_size - 1) \div 2
    IN  {n \in Neurons : first <= n /\ n < first + pool_size}

\* The position of the greatest value of y in window w (the first of them
\* when several are equal).
max_idxs(y, w) ==
    CHOOSE n \in Window(w) :
        \A m \in Window(w) : y[m] < y[n] \/ (y[m] = y[n] /\ n <= m)

\* SpikeMaxPooling2D.call: the winner of a window is the position where
\* self.mem_input + x is greatest; its value of x is gathered and multiplied
\* by a draw of random_binomial(0.8), gate[w] telling whether the draw is 1.
\* prev_mem, the accumulator of the inbound layer, is not read.
max_pooling_call(s, x, prev, gate) ==
    LET y == [n \in Neurons |-> s.mem_input[n] + x[n]]
    IN  [w \in Neurons |-> IF gate[w] THEN x[max_idxs(y, w)] ELSE 0]

\* An advance that adapts the threshold after the neurons are updated: the
\* activation works with the threshold the layer held before, and the
\* spikes of the step enter the threshold the step leaves.
spike_call_late_thresh(c, s, x, prev, hasPrev, rnd) ==
    LET x1 == IF c.payloads /\ hasPrev THEN add_payloads(prev, x) ELSE x
        s2 == update_neurons(c, [s EXCEPT !.impulse = call(x1)], x1, rnd)
    IN  IF c.online_normalization THEN [s2 EXCEPT !.v_thresh = get_new_thresh(c, s2)] ELSE s2

\* spike_call: one advance of a layer on input x; prev is the inbound layer
\* (hasPrev is FALSE for the first spiking layer, fed by the input layer).
spike_call(c, s, x, prev, hasPrev, rnd) ==
    LET s1 == IF c.online_normalization THEN [s EXCEPT !.v_thresh = get_new_thresh(c, s)] ELSE s
        x1 == IF c.payloads /\ hasPrev THEN add_payloads(prev, x) ELSE x
        s2 == [s1 EXCEPT !.impulse = IF IsPooling(s.class_name)
                                     THEN max_pooling_call(s1, x1, prev, rnd)
                                     ELSE call(x1)]
    IN  update_neurons(c, s2, x1, rnd)

\* An advance that consumes what it reads: the layer clears the payloads and
\* the accumulator of its inbound layer.
RECURSIVE predict_upto_draining(_, _, _, _, _)
predict_upto_draining(c, ls, frame, rnd, l) ==
    IF l = 0 THEN ls
    ELSE LET before == predict_upto_draining(c, ls, frame, rnd, l - 1)
             x == IF l = 1 THEN frame ELSE before[l - 1].spikes
             prev == IF l = 1 THEN before[l] ELSE before[l - 1]
             drained == IF l = 1 THEN before
                        ELSE [before EXCEPT ![l - 1].payloads = Zeros,
                                            ![l - 1].mem_acc = Zeros]
         IN  [drained EXCEPT ![l] = spike_call(c, before[l], x, prev, l > 1, rnd[l])]

\* A call of a plain layer that acts as a spiking layer does.
plain_call_spiking(c, s, x, prev, hasPrev, rnd) == spike_call(c, s, x, prev, hasPrev, rnd)

\* The call of a layer of a plain class (Concatenate.call, Flatten.call,
\* ZeroPadding2D.call, Reshape.call on one inbound tensor of the layer's own
\* width): the values of x are its output, and nothing else is touched.
plain_call(c, s, x, prev, hasPrev, rnd) == [s EXCEPT !.spikes = x]

\* snn.predict_on_batch: the layers advance one at a time, in order.
RECURSIVE predict_upto(_, _, _, _, _)
predict_upto(c, ls, frame, rnd, l) ==
    IF l = 0 THEN ls
    ELSE LET before == predict_upto(c, ls, frame, rnd, l - 1)
             x == IF l = 1 THEN frame ELSE before[l - 1].spikes
             prev == IF l = 1 THEN before[l] ELSE before[l - 1]
         IN  [before EXCEPT ![l] =
                IF before[l].class_name \in PlainClasses
                THEN plain_call(c, before[l], x, prev, l > 1, rnd[l])
                ELSE spike_call(c, before[l], x, prev, l > 1, rnd[l])]

predict_on_batch(c, ls, frame, rnd) == predict_upto(c, ls, frame, rnd, NumLayers)

\* A set_time that skips the first spiking layer.
set_time_skipping(ls, t) == [l \in Layers |-> IF l = 1 THEN ls[l] ELSE [ls[l] EXCEPT !.time = t]]

\* SNN.set_time
set_time(ls, t) ==
    [l \in Layers |->
        IF ls[l].class_name \in PlainClasses THEN ls[l] ELSE [ls[l] EXCEPT !.time = t]]

\* SNN.reset
reset(c, ls, sample) ==
    [l \in Layers |->
        IF ls[l].class_name \in PlainClasses THEN ls[l]
        ELSE reset_spikevars(c, ls[l], sample)]


\* ------------------------------------------------------ the input encoders

\* Direct mode: input_b_l = x_b_l * dt (SNN.simulate)
direct_frame(c, x) == [n \in Neurons |-> x[n] * c.dt]

\* The outcomes of spike_snapshot <= abs(x_b_l) in get_poisson_frame_batch,
\* with spike_snapshot = random_sample * rescale_fac * max(x_b_l), random_sample
\* in [0, 1) and rescale_fac = max(x_b) * 1000 / input_rate / dt at an input
\* rate of 1000: a draw of 0 always admits the element, and an element is
\* left out by some draw exactly when max(x)^2 / dt > abs(x).
poisson_snapshots(c, x) ==
    LET mx == MaxOf(x) IN
    {b \in [Neurons -> {0, 1}] :
        \A n \in Neurons : b[n] = 0 => mx * mx > Abs(x[n]) * One * c.dt}

\* A Poisson encoder that does not count the events it emits.
get_poisson_frame_batch_uncounted(c, x, count, b) ==
    IF count < c.num_poisson_events_per_sample \/ c.num_poisson_events_per_sample < 0
    THEN <<[n \in Neurons |-> b[n] * MaxOf(x) * Sign(x[n])], count>>
    ELSE <<Zeros, count>>

\* SNN.get_poisson_frame_batch for the draw b: <<input_b_l, _input_spikecount>>
get_poisson_frame_batch(c, x, count, b) ==
    IF count < c.num_poisson_events_per_sample \/ c.num_poisson_events_per_sample < 0
    THEN <<[n \in Neurons |-> b[n] * MaxOf(x) * Sign(x[n])], count + CountNonzero(b)>>
    ELSE <<Zeros, count>>

PoissonDraws(c, x, count) ==
    IF count < c.num_poisson_events_per_sample \/ c.num_poisson_events_per_sample < 0
    THEN poisson_snapshots(c, x) ELSE {Zeros}

\* dvs_gen.next_eventframe_batch(): a frame of 0/1 event flags.
next_eventframe_batch == [Neurons -> {0, One}]

\* ------------------------------------------------------------- the readout

RECURSIVE SumSteps(_, _, _)
SumSteps(out, n, t) == IF t = 0 THEN 0 ELSE out[t][n] + SumSteps(out, n, t - 1)

\* spike_sums_b_l = np.sum(output_b_l_t, 2)
spike_sums(out) == [n \in Neurons |-> SumSteps(out, n, Len(out))]

\* np.cumsum(output_b_l_t, 2)
cumsum(out) == [t \in 1..Len(out) |-> [n \in Neurons |-> SumSteps(out, n, t)]]

\* The sentinel class of undecided samples.
none_class == -1

\* clean_guesses_b of SNN.simulate (classes are numbered from 0).
clean_guesses(sums) == IF Sum(sums) = 0 THEN none_class ELSE ArgMax(sums) - 1

\* current_acc = np.mean(truth_b == clean_guesses_b), for the one sample
accuracy(truth, guess) == IF truth = guess THEN 1 ELSE 0

ZeroSteps(c) == [t \in 1..NumTimesteps(c) |-> Zeros]

\* The per-step statistics arrays, zero-filled for a new sample.
reset_log_vars(c) == [l \in Layers |-> ZeroSteps(c)]

\* ------------------------------------------------------ the event iterator

\* The recorded sequences offered to the iterator: up to MaxFileLen events,
\* each at one of a few addresses <<x, y>> of the raster.
AddressOf == <<<<0, 0>>, <<1, 0>>, <<2, 1>>>>
Addresses == {AddressOf[i] : i \in DOMAIN AddressOf}
EventSequences == UNION {[1..n -> Addresses] : n \in 0..MaxFileLen}

\* Longer recordings, of up to two full batches and one event more, at the
\* first two addresses.
LongFileLen == 2 * NumEventsPerSample + 1
LongSequences == UNION {[1..n -> {AddressOf[1], AddressOf[2]}] : n \in 0..LongFileLen}

\* The recordings of the archive the configuration points to.
Recordings(c) == IF c.recordings = "long" THEN LongSequences ELSE EventSequences

Pixels == (0..(RasterSide - 1)) \X (0..(RasterSide - 1))

\* batch_size * num_events_per_sample, for the batch of one sample
num_events_per_batch == NumEventsPerSample

\* event_sums after the counting loop of DVSIterator.__next__: the number of
\* events of the sample at each pixel.
event_counts(events) ==
    [p \in Pixels |-> Cardinality({i \in DOMAIN events : events[i] = p})]

\* The variance of the raster times the square of its size:
\* n * sum(c^2) - sum(c)^2, for np.std(event_sums).
ScaledVariance(sums) ==
    LET n == Cardinality(Pixels)
        s1 == SumOver(sums, Pixels)
        s2 == SumOver([p \in Pixels |-> sums[p] * sums[p]], Pixels)
    IN  n * s2 - s1 * s1

\* Whether m <= 3 * sigma for the scaled variance v, compared exactly:
\* m^2 * n^2 <= 9 * n^2 * sigma^2
AtMostThreeSigma(m, v) == m * m * Cardinality(Pixels) * Cardinality(Pixels) <= 9 * v

\* 3 * sigma cut to an integer, as the int32 raster stores it
FloorThreeSigma(sums) ==
    LET v == ScaledVariance(sums) IN
    CHOOSE m \in 0..(3 * NumEventsPerSample) :
        AtMostThreeSigma(m, v) /\ ~AtMostThreeSigma(m + 1, v)

\* A clipping whose upper limit is lost: only negative counts are cut.
clip_event_sums_unbounded(sums) == [p \in Pixels |-> IF sums[p] < 0 THEN 0 ELSE sums[p]]

\* np.clip(event_sums, 0, 3*sigma, event_sums): a count above 3 sigma becomes
\* 3 sigma, cut to an integer.
clip_event_sums(sums) ==
    LET limit == FloorThreeSigma(sums) IN
    [p \in Pixels |->
        IF sums[p] < 0 THEN 0
        ELSE IF sums[p] <= limit THEN sums[p]
        ELSE limit]

\* A keeping loop that does not count down: every event of a pixel with a
\* count left is kept.
kept_events_uncounted(events, sums, i) ==
    SelectSeq([k \in 1..Len(events) |-> k], LAMBDA k : k >= i /\ sums[events[k]] > 0)

\* The last loop of DVSIterator.__next__ over the events of the sample: an
\* event is appended while its pixel has a count left. Returns the indices
\* (into events) of the events kept, in order.
RECURSIVE kept_events(_, _, _)
kept_events(events, sums, i) ==
    IF i > Len(events) THEN <<>>
    ELSE IF sums[events[i]] > 0
         THEN <<i>> \o kept_events(events, [sums EXCEPT ![events[i]] = @ - 1], i + 1)
         ELSE kept_events(events, sums, i + 1)

DvsInit ==
    /\ dvs_pc = "next"
    /\ dvs_sample = <<>>
    /\ num_events_of_sample = 0
    /\ dvs_sample_idx = -1
    /\ batch_idx = 0
    /\ x_b_xaddr = <<>>
    /\ x_b_yaddr = <<>>
    /\ x_b_ts = <<>>
    /\ dvs_obs = [op |-> "init", raw |-> [p \in Pixels |-> 0],
                  clipped |-> [p \in Pixels |-> 0], discarded |-> 0]

\* A loading loop that keeps a sequence until its events are used up.
needs_next_file_late == num_events_per_batch * batch_idx >= num_events_of_sample

\* The test of the loading loop of DVSIterator.__next__
needs_next_file == num_events_per_batch * (batch_idx + 1) >= num_events_of_sample

\* One turn of the loading loop: the next file is loaded.
DvsLoad ==
    /\ dvs_pc = "next"
    /\ needs_next_file
    /\ dvs_sample_idx + 1 # NumFiles
    /\ \E seq \in Recordings(cfg) :
          /\ dvs_sample' = seq
          /\ num_events_of_sample' = Len(seq)
    /\ dvs_sample_idx' = dvs_sample_idx + 1
    /\ batch_idx' = 0
    /\ x_b_xaddr' = <<>>
    /\ x_b_yaddr' = <<>>
    /\ x_b_ts' = <<>>
    /\ dvs_obs' = [dvs_obs EXCEPT !.op = "load"]
    /\ UNCHANGED dvs_pc
    /\ UNCHANGED <<simVars, runVars>>

\* The loading loop finds no file left and raises StopIteration: what this
\* does to the iterator.
StopIteration ==
    /\ dvs_pc = "next"
    /\ needs_next_file
    /\ dvs_sample_idx + 1 = NumFiles
    /\ dvs_sample_idx' = dvs_sample_idx + 1
    /\ dvs_pc' = "stop"
    /\ x_b_xaddr' = <<>>
    /\ x_b_yaddr' = <<>>
    /\ x_b_ts' = <<>>
    /\ dvs_obs' = [dvs_obs EXCEPT !.op = "stop"]
    /\ UNCHANGED <<dvs_sample, num_events_of_sample, batch_idx>>

\* The timestamp of the event at position i of the loaded sequence: the
\* recorded sequences carry one event per time unit.
timestamp(i) == i

\* The rest of DVSIterator.__next__: the batch is extracted and returned.
\* Indexing the recording beyond its last event raises IndexError.
extract_batch ==
    /\ dvs_pc = "next"
    /\ ~needs_next_file
    /\ LET start_event == num_events_per_batch * batch_idx IN
       IF start_event + NumEventsPerSample > Len(dvs_sample)
       THEN /\ dvs_pc' = "IndexError"
            /\ x_b_xaddr' = <<>>
            /\ x_b_yaddr' = <<>>
            /\ x_b_ts' = <<>>
            /\ dvs_obs' = [dvs_obs EXCEPT !.op = "IndexError"]
            /\ UNCHANGED batch_idx
       ELSE LET events == [i \in 1..NumEventsPerSample |-> dvs_sample[start_event + i]]
                raw == event_counts(events)
                clipped == clip_event_sums(raw)
                kept == kept_events(events, clipped, 1)
            IN  /\ x_b_xaddr' = [k \in 1..Len(kept) |-> events[kept[k]][1]]
                /\ x_b_yaddr' = [k \in 1..Len(kept) |-> events[kept[k]][2]]
                /\ x_b_ts' = [k \in 1..Len(kept) |-> timestamp(start_event + kept[k])]
                /\ dvs_obs' = [op |-> "extract", raw |-> raw, clipped |-> clipped,
                               discarded |-> NumEventsPerSample - SumOver(clipped, Pixels)]
                /\ dvs_pc' = dvs_pc
                /\ batch_idx' = batch_idx + 1
    /\ UNCHANGED <<dvs_sample, num_events_of_sample, dvs_sample_idx>>

\* The iterator used on its own.
DvsStop == StopIteration /\ UNCHANGED <<simVars, runVars>>

DvsExtract == extract_batch /\ UNCHANGED <<simVars, runVars>>

NextDVS == DvsLoad \/ DvsStop \/ DvsExtract

\* ------------------------------------------------------------- the actions

NoRnd == [l \in Layers |-> [n \in Neurons |-> FALSE]]

\* The layers that draw random numbers when they advance: the uniform draws
\* of softmax_activation and the binomial draws of SpikeMaxPooling2D.call.
Draws(c, l) == c.activation_str[l] = "softmax" \/ IsPooling(c.layer_class[l])

\* The outcomes of the draws, layer by layer.
SoftmaxDraws(c) ==
    {r \in [Layers -> [Neurons -> BOOLEAN]] :
        \A l \in Layers : ~Draws(c, l) => r[l] = NoRnd[l]}

SoftmaxLayers(c) == Cardinality({l \in Layers : Draws(c, l)})

\* The local state of SNN.run before it is called; mismatch and stored tell
\* what the last assert_batch_size found, until the run begins.
NoRun ==
    [pc |-> "built", op |-> "none", mismatch |-> FALSE, stored |-> 0, step |-> 0,
     batches |-> 0, x_b |-> Zeros, truth_b |-> 0, input_spikecount |-> 0,
     inp |-> [p \in Pixels |-> 0], frame |-> Zeros, output_b_l |-> Zeros, guesses_b |-> 0,
     truth_d |-> <<>>, guesses_d |-> <<>>, result |-> "none"]

\* What the last operation did: whether the reset fired, whether the loop was
\* left by the break, the loop turns completed, the spike sums of the last
\* readout and the value returned.
NoHist(op) ==
    [op |-> op, fired |-> FALSE, stopped |-> FALSE, steps |-> 0, sums |-> Zeros,
     returned |-> <<>>]

RECURSIVE Power(_, _)
Power(a, k) == IF k = 0 THEN 1 ELSE a * Power(a, k - 1)

\* The biases are whole numbers of 1 / BiasUnit: with layer indices that are
\* multiples of 25 the relaxation factor is a multiple of 1 / (2 * duration),
\* and MaxUpdates products with it are exact.
BiasUnit(duration) == Power(2 * duration, MaxUpdates)

\* The end of SNN.compile: the trained biases, adjusted to the time
\* resolution of the simulator.
compile(c, ls) == [l \in Layers |-> [ls[l] EXCEPT !.bias = c.bias[l] * c.dt]]

\* SpikeLayer.update_b: the bias is multiplied by
\* m = clip(1 - (1 - 2 * time / duration) * i / 50, 0, 1), i the index of the
\* layer; m is formed over the denominator 50 * duration.
update_b(c, s, l) ==
    LET den == 50 * c.duration
        raw == den - (c.duration - 2 * s.time) * c.layer_idx[l]
        m == IF raw < 0 THEN 0 ELSE IF raw > den THEN den ELSE raw
    IN  [s EXCEPT !.bias = (s.bias * m) \div den]

InitNetwork(Configs, d, sizes) ==
    /\ cfg \in Configs
    /\ layers = compile(cfg, [l \in Layers |-> init_neurons(cfg, l)])
    /\ pc = "idle"
    /\ sample_idx = 0
    /\ sim_step_int = 0
    /\ num_timesteps = 0
    /\ x_b_l = Zeros
    /\ input_b_l = Zeros
    /\ truth_b = 0
    /\ output_b_l_t = ZeroSteps(cfg)
    /\ spiketrains_n_b_l_t = reset_log_vars(cfg)
    /\ clean_guesses_b = 0
    /\ current_acc = 0
    /\ input_spikecount = 0
    /\ x_accum = Zeros
    /\ t_budget = 0
    /\ rng_draws = 0
    /\ hist = NoHist("init")
    /\ driver = d
    /\ settings_batch_size \in sizes

\* The program after construction: the network is compiled, the event
\* iterator has loaded nothing and SNN.run has not been entered.
InitProgram(Configs, d, sizes) ==
    /\ InitNetwork(Configs, d, sizes)
    /\ DvsInit
    /\ run = NoRun

\* The network built for a batch of one sample, driven by SNN.simulate.
InitWith(Configs) == InitProgram(Configs, "simulate", {1})

\* The run loop resets the network before it simulates a sample: SNN.reset
Reset ==
    /\ driver = "simulate"
    /\ pc = "idle"
    /\ sample_idx < MaxSamples
    /\ layers' = reset(cfg, layers, sample_idx)
    /\ spiketrains_n_b_l_t' = reset_log_vars(cfg)
    /\ rng_draws' = 0
    /\ pc' = "ready"
    /\ hist' = [NoHist("reset") EXCEPT !.fired = do_reset(cfg, sample_idx)]
    /\ UNCHANGED <<cfg, sample_idx, sim_step_int, num_timesteps, x_b_l, input_b_l, truth_b,
                   output_b_l_t, clean_guesses_b, current_acc, input_spikecount, x_accum,
                   t_budget>>
    /\ UNCHANGED <<dvsVars, runVars>>

\* SNN.simulate is entered with the sample x_b_l and its label truth_b.
SimulateBegin ==
    /\ driver = "simulate"
    /\ pc = "ready"
    /\ \E x \in [Neurons -> cfg.levels], y \in cfg.labels :
          /\ x_b_l' = x
          /\ truth_b' = y
          /\ input_b_l' = direct_frame(cfg, x)
    /\ x_accum' = Zeros
    /\ t_budget' = 0
    /\ pc' = "budget"
    /\ hist' = NoHist("begin")
    /\ UNCHANGED <<cfg, layers, sample_idx, sim_step_int, num_timesteps, output_b_l_t,
                   spiketrains_n_b_l_t, clean_guesses_b, current_acc, input_spikecount,
                   rng_draws>>
    /\ UNCHANGED <<dvsVars, runVars>>

\* A guard that tests the reset policy and forgets the input mode.
budget_supported_reset_only(c) == c.reset = "Reset by subtraction"

\* A guard that lets every configuration into the budget loop.
budget_supported_always(c) == TRUE

\* The spike budget is only supported for constant input currents and reset
\* by subtraction (the guard of _get_timestep_at_spikecount).
budget_supported(c) ==
    ~(c.input_mode = "dvs" \/ c.input_mode = "poisson" \/ c.reset # "Reset by subtraction")

\* A count of whole spikes that rounds to the nearest one.
Floor_nearest(a) == (2 * a + One) \div (2 * One)

\* floor of a fixed-point value, in whole spikes
Floor(a) == a \div One

\* SNN._get_timestep_at_spikecount: its early returns, or one turn of its
\* loop; on its return SNN.simulate allocates the output and enters its loop.
GetTimestepAtSpikecount ==
    /\ driver = "simulate"
    /\ pc = "budget"
    /\ IF ~cfg.has_budget \/ ~budget_supported(cfg)
       THEN /\ num_timesteps' = NumTimesteps(cfg)
            /\ pc' = "loop"
            /\ UNCHANGED <<x_accum, t_budget>>
       ELSE LET acc == [n \in Neurons |-> x_accum[n] + input_b_l[n]]
                spikecount == Sum([n \in Neurons |-> Floor(acc[n])])
            IN  /\ x_accum' = acc
                /\ IF spikecount > cfg.max_num_input_spikes
                   THEN /\ num_timesteps' = (IF t_budget < NumTimesteps(cfg) THEN t_budget
                                             ELSE NumTimesteps(cfg))
                        /\ pc' = "loop"
                        /\ UNCHANGED t_budget
                   ELSE /\ t_budget < MaxBudgetTurns
                        /\ t_budget' = t_budget + 1
                        /\ UNCHANGED <<num_timesteps, pc>>
    /\ output_b_l_t' = ZeroSteps(cfg)
    /\ input_spikecount' = IF pc' = "loop" THEN 0 ELSE input_spikecount
    /\ hist' = NoHist("budget")
    /\ UNCHANGED <<cfg, layers, sample_idx, sim_step_int, x_b_l, input_b_l, truth_b,
                   spiketrains_n_b_l_t, clean_guesses_b, current_acc, rng_draws>>
    /\ UNCHANGED <<dvsVars, runVars>>

\* An early-stopping test that never finds the frame empty.
early_stop_lost(c, frame) == FALSE

\* The early-stopping test of SNN.simulate.
early_stop(c, frame) == c.early_stopping /\ CountNonzero(frame) = 0

\* One turn of the loop of SNN.simulate.
Step ==
    /\ driver = "simulate"
    /\ pc = "loop"
    /\ sim_step_int < num_timesteps
    /\ \E b \in (IF cfg.input_mode = "poisson" THEN PoissonDraws(cfg, x_b_l, input_spikecount)
                 ELSE {Zeros}),
          ev \in (IF cfg.input_mode = "dvs" THEN next_eventframe_batch ELSE {Zeros}),
          rnd \in SoftmaxDraws(cfg) :
          LET sim_step == (sim_step_int + 1) * cfg.dt
              timed == set_time(layers, sim_step)
              pf == get_poisson_frame_batch(cfg, x_b_l, input_spikecount, b)
              frame == IF cfg.input_mode = "poisson" THEN pf[1]
                       ELSE IF cfg.input_mode = "dvs" THEN ev
                       ELSE input_b_l
              count == IF cfg.input_mode = "poisson" THEN pf[2] ELSE input_spikecount
              drew == IF cfg.input_mode = "poisson"
                         /\ PoissonDraws(cfg, x_b_l, input_spikecount) # {Zeros} THEN 1 ELSE 0
              after == predict_on_batch(cfg, timed, frame, rnd)
              out == [output_b_l_t EXCEPT ![sim_step_int + 1] =
                         [n \in Neurons |-> IF after[NumLayers].spikes[n] > 0 THEN 1 ELSE 0]]
              sums == spike_sums(out)
              guess == clean_guesses(sums)
          IN  /\ input_b_l' = frame
              /\ input_spikecount' = count
              /\ IF early_stop(cfg, frame)
                 THEN /\ layers' = timed
                      /\ pc' = "break"
                      /\ rng_draws' = rng_draws + drew
                      /\ hist' = [hist EXCEPT !.op = "step", !.stopped = TRUE]
                      /\ UNCHANGED <<output_b_l_t, spiketrains_n_b_l_t, clean_guesses_b,
                                     current_acc, sim_step_int>>
                 ELSE /\ layers' = after
                      /\ output_b_l_t' = out
                      /\ spiketrains_n_b_l_t' =
                            [l \in Layers |->
                               IF cfg.log_spiketrains /\ after[l].class_name \notin PlainClasses
                               THEN [spiketrains_n_b_l_t[l] EXCEPT ![sim_step_int + 1] =
                                        after[l].spiketrain]
                               ELSE spiketrains_n_b_l_t[l]]
                      /\ clean_guesses_b' = guess
                      /\ current_acc' = accuracy(truth_b, guess)
                      /\ sim_step_int' = sim_step_int + 1
                      /\ rng_draws' = rng_draws + drew + SoftmaxLayers(cfg)
                      /\ hist' = [hist EXCEPT !.op = "step", !.sums = sums,
                                               !.steps = sim_step_int + 1]
                      /\ UNCHANGED pc
    /\ UNCHANGED <<cfg, sample_idx, num_timesteps, x_b_l, truth_b, x_accum, t_budget>>
    /\ UNCHANGED <<dvsVars, runVars>>

\* The end of SNN.simulate: its loop is exhausted or was left by the break;
\* it returns the cumulative sum and its local variables are gone, and with
\* them the tensors of the last predict_on_batch (the impulse of each layer
\* and the spikes it returned), which nothing reads before the next advance
\* computes them anew.
SimulateEnd ==
    /\ driver = "simulate"
    /\ \/ pc = "break"
       \/ pc = "loop" /\ sim_step_int >= num_timesteps
    /\ hist' = [hist EXCEPT !.op = "end", !.returned = cumsum(output_b_l_t)]
    /\ pc' = "idle"
    /\ sample_idx' = sample_idx + 1
    /\ sim_step_int' = 0
    /\ num_timesteps' = 0
    /\ x_b_l' = Zeros
    /\ input_b_l' = Zeros
    /\ truth_b' = 0
    /\ output_b_l_t' = ZeroSteps(cfg)
    /\ clean_guesses_b' = 0
    /\ current_acc' = 0
    /\ x_accum' = Zeros
    /\ t_budget' = 0
    /\ layers' = [l \in Layers |-> [layers[l] EXCEPT !.impulse = Zeros, !.spikes = Zeros]]
    /\ UNCHANGED <<cfg, spiketrains_n_b_l_t, input_spikecount, rng_draws>>
    /\ UNCHANGED <<dvsVars, runVars>>

Next == Reset \/ SimulateBegin \/ GetTimestepAtSpikecount \/ Step \/ SimulateEnd

\* ------------------------------------------------- the run loop (SNN.run)

\* assert_batch_size(batch_size): a size that differs from the stored one is
\* reported and then stored.
assert_batch_size(stored, batch_size) == IF batch_size # stored THEN batch_size ELSE stored

AssertBatchSize ==
    /\ driver = "run"
    /\ run.pc = "built"
    /\ \E batch_size \in 1..MaxBatchSize :
          /\ settings_batch_size' = assert_batch_size(settings_batch_size, batch_size)
          /\ run' = [run EXCEPT !.pc = "loaded", !.op = "assert_batch_size",
                                !.mismatch = (batch_size # settings_batch_size),
                                !.stored = settings_batch_size]
    /\ UNCHANGED <<simVars, dvsVars, driver>>

\* SNN.reset of the run loop: every layer is reset, whatever the sample.
run_reset(c, ls) == reset(c, ls, 0)

\* The head of SNN.run, up to its batch loop: the assertion on the sample
\* indices to test (si_len of them, none when the setting is absent), the
\* iterator and the accumulators.
RunBegin ==
    /\ driver = "run"
    /\ run.pc \in {"built", "loaded"}
    /\ \E si_len \in 0..MaxBatchSize :
          IF si_len # 0 /\ si_len # settings_batch_size
          THEN run' = [run EXCEPT !.pc = "AssertionError", !.op = "run"]
          ELSE run' = [run EXCEPT !.pc = "batch", !.op = "run", !.mismatch = FALSE,
                                  !.stored = 0, !.truth_d = <<>>, !.guesses_d = <<>>,
                                  !.guesses_b = 0, !.batches = 0]
    /\ UNCHANGED <<simVars, dvsVars, driver, settings_batch_size>>

\* num_batches of SNN.run for a test set of MaxSamples batches; the event
\* input has no limit but the end of the recordings.
num_batches(c) == MaxSamples

\* The label of the recording at index i of the file list.
label_of(i) == i % NumNeurons

\* What every batch starts with: the network reset and the local counters.
run_batch(r, x, y) ==
    [r EXCEPT !.pc = "steps", !.op = "batch", !.x_b = x, !.truth_b = y, !.step = 0,
              !.input_spikecount = 0, !.output_b_l = Zeros,
              !.inp = [p \in Pixels |-> 0], !.frame = Zeros]

\* dvs_gen.__next__() loads the next recording.
RunLoad ==
    /\ driver = "run"
    /\ run.pc = "batch"
    /\ cfg.input_mode = "dvs"
    /\ DvsLoad

\* dvs_gen.__next__() raises StopIteration: the batch loop is left.
RunStopIteration ==
    /\ driver = "run"
    /\ run.pc = "batch"
    /\ cfg.input_mode = "dvs"
    /\ StopIteration
    /\ run' = [run EXCEPT !.pc = "result", !.op = "break"]
    /\ UNCHANGED <<simVars, driver, settings_batch_size>>

\* dvs_gen.__next__() returns the event queues of a batch.
RunExtract ==
    /\ driver = "run"
    /\ run.pc = "batch"
    /\ cfg.input_mode = "dvs"
    /\ extract_batch
    /\ run' = run_batch(run, Zeros, label_of(dvs_sample_idx))
    /\ layers' = run_reset(cfg, layers)
    /\ UNCHANGED <<cfg, pc, sample_idx, sim_step_int, num_timesteps, x_b_l, input_b_l,
                   truth_b, output_b_l_t, spiketrains_n_b_l_t, clean_guesses_b, current_acc,
                   input_spikecount, x_accum, t_budget, rng_draws, hist>>
    /\ UNCHANGED <<driver, settings_batch_size>>

\* A batch is taken from x_test.
RunTake ==
    /\ driver = "run"
    /\ run.pc = "batch"
    /\ cfg.input_mode # "dvs"
    /\ run.batches < num_batches(cfg)
    /\ \E x \in [Neurons -> cfg.levels], y \in cfg.labels : run' = run_batch(run, x, y)
    /\ layers' = run_reset(cfg, layers)
    /\ UNCHANGED <<cfg, pc, sample_idx, sim_step_int, num_timesteps, x_b_l, input_b_l,
                   truth_b, output_b_l_t, spiketrains_n_b_l_t, clean_guesses_b, current_acc,
                   input_spikecount, x_accum, t_budget, rng_draws, hist>>
    /\ UNCHANGED <<dvsVars, driver, settings_batch_size>>

\* The range of the batch loop is exhausted.
RunBatchesDone ==
    /\ driver = "run"
    /\ run.pc = "batch"
    /\ cfg.input_mode # "dvs"
    /\ run.batches >= num_batches(cfg)
    /\ run' = [run EXCEPT !.pc = "result", !.op = "exhausted"]
    /\ UNCHANGED <<simVars, dvsVars, driver, settings_batch_size>>

\* deque.remove(v): the first element equal to v is taken out.
RECURSIVE remove(_, _)
remove(q, v) ==
    IF q = <<>> THEN <<>>
    ELSE IF Head(q) = v THEN Tail(q)
    ELSE <<Head(q)>> \o remove(Tail(q), v)

\* The loop of SNN.run over the buffered events of the sample, from event i
\* on: an event whose pixel is still dark lights it and is taken out of the
\* three queues; the loop is left after the first event later than the frame.
RECURSIVE event_frame(_, _, _, _)
event_frame(copy, i, inp, queues) ==
    IF i > Len(copy.ts) THEN [inp |-> inp, queues |-> queues]
    ELSE LET x == copy.xaddr[i]
             y == copy.yaddr[i]
             ts == copy.ts[i]
             dark == inp[<<x, y>>] = 0
             inp2 == IF dark THEN [inp EXCEPT ![<<x, y>>] = 1] ELSE inp
             queues2 == IF dark
                        THEN [xaddr |-> remove(queues.xaddr, x),
                              yaddr |-> remove(queues.yaddr, y),
                              ts |-> remove(queues.ts, ts)]
                        ELSE queues
             first_ts_of_frame == copy.ts[1]
         IN  IF ts - first_ts_of_frame > eventframe_width
             THEN [inp |-> inp2, queues |-> queues2]
             ELSE event_frame(copy, i + 1, inp2, queues2)

\* The outcomes of spike_snapshot <= abs(x_b) in SNN.run, with
\* spike_snapshot = random_sample * rescale_fac: an element is left out by
\* some draw exactly when max(x) / dt > abs(x).
run_snapshots(c, x) ==
    LET mx == MaxOf(x) IN
    {b \in [Neurons -> {0, 1}] : \A n \in Neurons : b[n] = 0 => mx > Abs(x[n]) * c.dt}

\* A Poisson branch that never finds its event budget reached.
RunDraws_unbounded(c, x, count) == run_snapshots(c, x)

RunDraws(c, x, count) ==
    IF count < c.num_poisson_events_per_sample \/ c.num_poisson_events_per_sample < 0
    THEN run_snapshots(c, x) ELSE {Zeros}

\* The input neuron n of the network reads the pixel at the n-th address.
frame_of(inp) == [n \in Neurons |-> inp[AddressOf[n]] * One]

\* The turns of the time loop of SNN.run: len(range(dt, duration + dt, dt))
run_steps(c) == (c.duration + c.dt - 1) \div c.dt

\* The slots of top1err_b_t along time: int(duration / dt) (init_log_vars)
top1err_slots(c) == c.duration \div c.dt

\* One turn of the time loop of SNN.run; the write of top1err_b_t at a step
\* index beyond its slots raises IndexError.
RunStep ==
    /\ driver = "run"
    /\ run.pc = "steps"
    /\ run.step < run_steps(cfg)
    /\ \E b \in (IF cfg.input_mode = "poisson"
                 THEN RunDraws(cfg, run.x_b, run.input_spikecount) ELSE {Zeros}),
          rnd \in SoftmaxDraws(cfg) :
          LET sim_step == (run.step + 1) * cfg.dt
              queues == [xaddr |-> x_b_xaddr, yaddr |-> x_b_yaddr, ts |-> x_b_ts]
              ef == event_frame(queues, 1, [p \in Pixels |-> 0], queues)
              drawn == cfg.input_mode = "poisson"
                          /\ (run.input_spikecount < cfg.num_poisson_events_per_sample
                                \/ cfg.num_poisson_events_per_sample < 0)
              frame == IF cfg.input_mode = "poisson" THEN [n \in Neurons |-> b[n] * One]
                       ELSE IF cfg.input_mode = "dvs" THEN frame_of(ef.inp)
                       ELSE direct_frame(cfg, run.x_b)
              after == predict_on_batch(cfg, set_time(layers, sim_step), frame, rnd)
              out == [n \in Neurons |->
                        run.output_b_l[n]
                           + Sign(after[NumLayers].spikes[n])
                                * (Abs(after[NumLayers].spikes[n]) \div One)]
              guess == IF CountNonzero(out) = 0 THEN none_class ELSE ArgMax(out) - 1
          IN  /\ layers' = after
              /\ run' = [run EXCEPT !.op = "step",
                                    !.pc = IF run.step < top1err_slots(cfg) THEN @
                                           ELSE "IndexError",
                                    !.step = IF run.step < top1err_slots(cfg) THEN @ + 1
                                             ELSE @,
                                    !.output_b_l = out,
                                    !.guesses_b = guess,
                                    !.inp = IF cfg.input_mode = "dvs" THEN ef.inp ELSE @,
                                    !.frame = frame,
                                    !.input_spikecount =
                                        IF drawn THEN @ + CountNonzero(b) ELSE @]
              /\ IF cfg.input_mode = "dvs"
                 THEN /\ x_b_xaddr' = ef.queues.xaddr
                      /\ x_b_yaddr' = ef.queues.yaddr
                      /\ x_b_ts' = ef.queues.ts
                 ELSE UNCHANGED <<x_b_xaddr, x_b_yaddr, x_b_ts>>
    /\ UNCHANGED <<cfg, pc, sample_idx, sim_step_int, num_timesteps, x_b_l, input_b_l,
                   truth_b, output_b_l_t, spiketrains_n_b_l_t, clean_guesses_b, current_acc,
                   input_spikecount, x_accum, t_budget, rng_draws, hist>>
    /\ UNCHANGED <<dvs_pc, dvs_sample, num_events_of_sample, dvs_sample_idx, batch_idx,
                   dvs_obs>>
    /\ UNCHANGED <<driver, settings_batch_size>>

\* The time loop is over: the batch is added to the totals.
RunBatchDone ==
    /\ driver = "run"
    /\ run.pc = "steps"
    /\ run.step >= run_steps(cfg)
    /\ run' = [run EXCEPT !.pc = "batch", !.op = "batch_done", !.batches = @ + 1,
                          !.truth_d = Append(@, run.truth_b),
                          !.guesses_d = Append(@, run.guesses_b)]
    /\ UNCHANGED <<simVars, dvsVars, driver, settings_batch_size>>

\* top1acc_total = np.mean(truth_d == guesses_d), as <<matches, samples>>;
\* the mean of no sample is nan.
top1acc_total(truth_d, guesses_d) ==
    IF Len(truth_d) = 0 THEN "nan"
    ELSE <<Cardinality({i \in DOMAIN truth_d : truth_d[i] = guesses_d[i]}), Len(truth_d)>>

\* SNN.run returns the total accuracy.
RunReturn ==
    /\ driver = "run"
    /\ run.pc = "result"
    /\ run' = [run EXCEPT !.pc = "returned", !.op = "return",
                          !.result = top1acc_total(run.truth_d, run.guesses_d)]
    /\ UNCHANGED <<simVars, dvsVars, driver, settings_batch_size>>

\* SNN.set_time called on the network by itself, with the time of a step.
SetTime ==
    /\ driver = "update_b"
    /\ \E k \in 1..NumTimesteps(cfg) : layers' = set_time(layers, k * cfg.dt)
    /\ hist' = [hist EXCEPT !.op = "set_time"]
    /\ UNCHANGED <<cfg, pc, sample_idx, sim_step_int, num_timesteps, x_b_l, input_b_l,
                   truth_b, output_b_l_t, spiketrains_n_b_l_t, clean_guesses_b, current_acc,
                   input_spikecount, x_accum, t_budget, rng_draws>>
    /\ UNCHANGED <<dvsVars, runVars>>

\* A bias-relaxation update: update_b is called on every spiking layer.
UpdateB ==
    /\ driver = "update_b"
    /\ hist.steps < MaxUpdates
    /\ layers' = [l \in Layers |->
                     IF layers[l].class_name \in PlainClasses THEN layers[l]
                     ELSE update_b(cfg, layers[l], l)]
    /\ hist' = [hist EXCEPT !.op = "update_b", !.steps = @ + 1]
    /\ UNCHANGED <<cfg, pc, sample_idx, sim_step_int, num_timesteps, x_b_l, input_b_l,
                   truth_b, output_b_l_t, spiketrains_n_b_l_t, clean_guesses_b, current_acc,
                   input_spikecount, x_accum, t_budget, rng_draws>>
    /\ UNCHANGED <<dvsVars, runVars>>

NextBias == SetTime \/ UpdateB

\* Either driver at work on the network: SNN.simulate called sample by
\* sample, or SNN.run entered directly.
NextDrivers ==
    \/ Reset
    \/ SimulateBegin
    \/ GetTimestepAtSpikecount
    \/ Step
    \/ SimulateEnd
    \/ RunBegin
    \/ RunLoad
    \/ RunStopIteration
    \/ RunExtract
    \/ RunTake
    \/ RunBatchesDone
    \/ RunStep
    \/ RunBatchDone
    \/ RunReturn

\* Either driver on input taken from x_test (constant or Poisson input).
NextFrames ==
    \/ Reset
    \/ SimulateBegin
    \/ GetTimestepAtSpikecount
    \/ Step
    \/ SimulateEnd
    \/ RunBegin
    \/ RunTake
    \/ RunBatchesDone
    \/ RunStep
    \/ RunBatchDone
    \/ RunReturn

NextRun ==
    \/ AssertBatchSize
    \/ RunBegin
    \/ RunLoad
    \/ RunStopIteration
    \/ RunExtract
    \/ RunTake
    \/ RunBatchesDone
    \/ RunStep
    \/ RunBatchDone
    \/ RunReturn

\* ------------------------------------------------------- the configurations

\* A value given in hundredths, as a fixed-point number.
Pct(p) == p * L

Activations == {"relu", "linear", "binary_sigmoid", "binary_tanh", "leakyrelu", "softmax",
                "relu_Q1.2"}

\* Every layer carries the activation a, except that softmax is the
\* activation of the output layer alone (the layers before it are relu).
LayerActivations(a) ==
    [l \in Layers |-> IF a = "softmax" /\ l < NumLayers THEN "relu" ELSE a]

\* The analog inputs offered to a layer: none may spike (0, 0.37), one
\* drives several spikes (2.5), and a negative one (-5) where the activation
\* has a negative branch. Two of them are offered where the run branches on
\* random draws or carries the state of one sample into the next.
LevelsOf(a, im, md) ==
    IF im = "dvs" THEN {Pct(0)}
    ELSE IF md # 1 THEN {Pct(0), Pct(250)}
    ELSE IF im = "poisson" \/ a = "softmax" THEN {Pct(37), Pct(250)}
    ELSE IF a \in {"linear", "binary_tanh", "leakyrelu"} THEN {Pct(-500), Pct(37), Pct(250)}
    ELSE {Pct(0), Pct(37), Pct(250)}

Config(dt, tau, r, a, lk, pl, on, md, im, es, pe) ==
    [dt |-> dt, duration |-> MaxSteps * dt, tau_refrac |-> tau, reset |-> r,
     activation_str |-> LayerActivations(a),
     layer_class |-> [l \in Layers |-> "SpikeDense"], leak |-> lk, payloads |-> pl,
     online_normalization |-> on, reset_between_nth_sample |-> md,
     input_mode |-> im, early_stopping |-> es, log_spiketrains |-> TRUE,
     recordings |-> "short",
     has_budget |-> FALSE, max_num_input_spikes |-> 0,
     num_poisson_events_per_sample |-> pe,
     levels |-> LevelsOf(a, im, md), labels |-> {0},
     bias |-> [l \in Layers |-> 0], layer_idx |-> [l \in Layers |-> l]]

DefaultConfig ==
    Config(1, 0, "Reset by subtraction", "relu", FALSE, FALSE, FALSE, 1, "direct", FALSE, -1)

AllConfigs ==
    {Config(dt, tau, r, a, lk, pl, on, md, im, es, pe) :
        dt \in {1, 2}, tau \in {0, 2},
        r \in {"Reset by subtraction", "Reset to zero", "Reset by modulo"},
        a \in Activations, lk \in BOOLEAN, pl \in BOOLEAN, on \in BOOLEAN, md \in {0, 1, 2},
        im \in {"direct", "poisson", "dvs"}, es \in BOOLEAN, pe \in {-1, 2}}

Options == {"dt", "tau_refrac", "reset", "activation_str", "leak", "payloads",
            "online_normalization", "reset_between_nth_sample", "input_mode",
            "early_stopping", "num_poisson_events_per_sample"}

\* The options in which configuration c departs from the default.
Departures(c) == {o \in Options : c[o] # DefaultConfig[o]}

\* The options that leave the run of a sample deterministic and confined to
\* that sample.
LocalOptions == {"dt", "tau_refrac", "reset", "activation_str", "leak", "payloads",
                 "online_normalization"}

\* The pairs of other options that act on each other.
MainPairs ==
    {{"online_normalization", "reset_between_nth_sample"},
     {"tau_refrac", "reset_between_nth_sample"},
     {"input_mode", "early_stopping"},
     {"input_mode", "num_poisson_events_per_sample"},
     {"tau_refrac", "activation_str"}}

\* The configurations of the main specification: the default, every
\* configuration that departs from it in one option, every pair of local
\* options without random draws, and the pairs of MainPairs.
MainConfigs ==
    {c \in AllConfigs :
        \/ Cardinality(Departures(c)) <= 1
        \/ Departures(c) \in MainPairs
        \/ /\ Cardinality(Departures(c)) = 2
           /\ Departures(c) \subseteq LocalOptions
           /\ c.activation_str[NumLayers] # "softmax"}

Init == InitWith(MainConfigs)

Spec == Init /\ [][Next]_vars

InitDVS == InitWith({DefaultConfig})

SpecDVS == InitDVS /\ [][NextDVS]_vars

\* The rate-coding configuration: the default network run for RateSteps steps
\* of dt = 1 on constant inputs between 0 and 1.
RateLevels == {Pct(0), Pct(1), Pct(33), Pct(37), Pct(50), Pct(99), Pct(100)}

RateConfigs == {[DefaultConfig EXCEPT !.duration = RateSteps, !.levels = RateLevels]}

InitRate == InitWith(RateConfigs)

SpecRate == InitRate /\ [][Next]_vars

\* The readout configurations: simulate is handed any label, the sentinel
\* -1 included, with constant input and with event frames.
ReadoutConfigs ==
    {[c EXCEPT !.labels = none_class..(NumNeurons - 1)] :
        c \in {d \in MainConfigs : Departures(d) \subseteq {"input_mode"}
                                   /\ d.input_mode # "poisson"}}

InitReadout == InitWith(ReadoutConfigs)

SpecReadout == InitReadout /\ [][Next]_vars

\* The spike-budget configurations: max_num_input_spikes is set to 1, with
\* every input mode and every reset policy.
BudgetConfigs ==
    {[c EXCEPT !.has_budget = TRUE, !.max_num_input_spikes = 1] :
        c \in {d \in MainConfigs : Departures(d) \subseteq {"input_mode"}
                                   \/ Departures(d) \subseteq {"reset"}}}

InitBudget == InitWith(BudgetConfigs)

SpecBudget == InitBudget /\ [][Next]_vars

\* The configurations that differ from the default in how a layer keeps its
\* buffers: time step, refractory period, reset policy, leak, payloads and
\* online normalization, one or two at a time.
LayerConfigs ==
    {c \in MainConfigs : Departures(c) \subseteq LocalOptions \ {"activation_str"}}

InitLayers == InitWith(LayerConfigs)

SpecLayers == InitLayers /\ [][Next]_vars

\* The default network with one of its layers replaced by a layer of another
\* class.
ShapeConfigs ==
    {[DefaultConfig EXCEPT !.layer_class[l] = k] :
        l \in Layers, k \in PlainClasses \cup {"SpikeUpSampling2D"}}

InitShapes == InitWith(ShapeConfigs)

SpecShapes == InitShapes /\ [][Next]_vars

\* The networks whose layers carry a quantized tag, with every tag and with
\* inputs of either sign.
QuantConfigs ==
    {[c EXCEPT !.activation_str = [l \in Layers |-> q],
               !.levels = {Pct(-500), Pct(37), Pct(250)}] :
        c \in {d \in MainConfigs : IsQuantized(d.activation_str[1])}, q \in QuantizedTags}

InitQuant == InitWith(QuantConfigs)

SpecQuant == InitQuant /\ [][Next]_vars

\* Constant input, reset by subtraction and a spike budget of one or two
\* spikes: the configurations in which the budget caps the steps.
CapConfigs ==
    {[DefaultConfig EXCEPT !.has_budget = TRUE, !.max_num_input_spikes = b] : b \in {1, 2}}

InitCap == InitWith(CapConfigs)

SpecCap == InitCap /\ [][Next]_vars

\* SNN.run on the default network, with each kind of input and with a Poisson
\* event budget, and with a duration that is no multiple of the time step;
\* the stored batch size is any size up to MaxBatchSize.
RunConfigs ==
    {[DefaultConfig EXCEPT !.input_mode = o[1], !.num_poisson_events_per_sample = o[2],
                           !.levels = LevelsOf("relu", o[1], 1)] :
        o \in {<<"direct", -1>>, <<"poisson", -1>>, <<"poisson", 1>>, <<"dvs", -1>>}}
      \cup {[DefaultConfig EXCEPT !.dt = 2, !.duration = 2 * MaxSteps - 1]}

InitRun == InitProgram(RunConfigs, "run", 1..MaxBatchSize)

SpecRun == InitRun /\ [][NextRun]_vars

\* The configurations in which the input can run out: each input mode, with
\* and without early stopping, with and without a Poisson event budget.
ExhaustionConfigs ==
    {c \in MainConfigs :
        Departures(c) \subseteq {"input_mode", "early_stopping",
                                 "num_poisson_events_per_sample"}}

\* SNN.run on event input and on Poisson input with an event budget.
ExhaustionRunConfigs ==
    {c \in RunConfigs : c.input_mode = "dvs"
                           \/ (c.input_mode = "poisson"
                                 /\ c.num_poisson_events_per_sample >= 0)}

InitExhaustion ==
    \/ InitProgram(ExhaustionConfigs, "simulate", {1})
    \/ InitProgram(ExhaustionRunConfigs, "run", {1})

SpecExhaustion == InitExhaustion /\ [][NextDrivers]_vars

\* ---------------------------------------------------------------- C1

\* The spikes layer l's neuron n has emitted in the steps recorded so far.
SpikesEmitted(l, n) ==
    Cardinality({t \in 1..sim_step_int : spiketrains_n_b_l_t[l][t][n] # 0})

\* The case of C1: constant input, dt = 1, threshold 1, reset by
\* subtraction, linear activation, no leak, refractory period or payloads.
RateCodingCase ==
    /\ cfg.input_mode = "direct" /\ cfg.dt = 1 /\ cfg.reset = "Reset by subtraction"
    /\ cfg.activation_str[1] = "relu" /\ ~cfg.leak /\ cfg.tau_refrac = 0
    /\ ~cfg.payloads /\ ~cfg.online_normalization /\ ~cfg.has_budget
    /\ \A n \in Neurons : x_b_l[n] >= 0 /\ x_b_l[n] <= One

C2_ThresholdBounded ==
    cfg.online_normalization
        => \A l \in Layers : layers[l].v_thresh >= One \div 100 /\ layers[l].v_thresh <= One

\* ---------------------------------------------------------------- C3

\* C3: at every readout step a sample whose cumulative output is all zero
\* gets the sentinel class and is counted as incorrect whatever its label,
\* the label -1 included; otherwise the guess is the argmax of the output.
C3_UndecidedIsIncorrect ==
    (pc = "loop" /\ hist.op = "step")
        => IF Sum(spike_sums(output_b_l_t)) = 0
           THEN clean_guesses_b = none_class /\ current_acc = 0
           ELSE clean_guesses_b = ArgMax(spike_sums(output_b_l_t)) - 1

\* ---------------------------------------------------------------- C4

EarlyStoppingCase == cfg.input_mode \in {"poisson", "dvs"} /\ cfg.early_stopping

\* The per-step records of the steps after the first k are untouched.
NothingWrittenAfter(k) ==
    \A t \in (k + 1)..NumTimesteps(cfg) :
        /\ Len(output_b_l_t) >= t => output_b_l_t[t] = Zeros
        /\ \A l \in Layers : spiketrains_n_b_l_t[l][t] = Zeros

\* C4: with early stopping in event or Poisson mode an all-zero frame ends
\* the loop at once; nothing is recorded for that step or a later one, and
\* the cumulative output returned ends with the sums of the steps before.
C4_EarlyStop ==
    EarlyStoppingCase
        => /\ (hist.op = "step" /\ CountNonzero(input_b_l) = 0) => pc = "break"
           /\ pc = "break" => /\ hist.stopped
                              /\ sim_step_int = hist.steps
                              /\ NothingWrittenAfter(sim_step_int)
                              /\ spike_sums(output_b_l_t) = hist.sums
           /\ (hist.op = "end" /\ hist.stopped)
                 => /\ hist.returned[NumTimesteps(cfg)] = hist.sums
                    /\ \A t \in (hist.steps + 1)..NumTimesteps(cfg) :
                          /\ hist.returned[t] = hist.sums
                          /\ \A l \in Layers : spiketrains_n_b_l_t[l][t] = Zeros

\* a simulation that had produced output was stopped early and has returned
C4_Witness ==
    /\ EarlyStoppingCase /\ hist.op = "end" /\ hist.stopped
    /\ hist.steps >= 1 /\ hist.steps < NumTimesteps(cfg) /\ Sum(hist.sums) > 0

\* ---------------------------------------------------------------- C5

\* C5: a second reset(i) right after reset(i) changes no field of any layer,
\* for every sample index i and from every state of the layer.
C5_ResetIdempotent ==
    /\ \A l \in Layers : \A i \in 0..MaxSamples :
          reset_spikevars(cfg, reset_spikevars(cfg, layers[l], i), i)
              = reset_spikevars(cfg, layers[l], i)
    /\ hist.op = "reset" => reset(cfg, layers, sample_idx) = layers

\* a reset that fired on a network that had simulated a sample
C5_Witness ==
    /\ hist.op = "reset" /\ hist.fired /\ sample_idx >= 1
    /\ \A l \in Layers : layers[l].mem = init_membrane_potential /\ layers[l].time = cfg.dt

\* ---------------------------------------------------------------- C6

\* A step of the loop was taken and the network advanced (no early stop).
Advanced == pc = "loop" /\ pc' = "loop" /\ sim_step_int' = sim_step_int + 1

\* C6: with tau_refrac = 0 the input gate is the identity: at every step the
\* input added to mem_acc, and to mem before leak and reset, of every neuron
\* of every layer is the impulse the layer received.
C6_NoRefractoryGate ==
    [][(cfg.tau_refrac = 0 /\ Advanced)
          => \A l \in Layers :
                \A n \in Neurons :
                      /\ layers'[l].mem_acc[n] = layers[l].mem_acc[n] + layers'[l].impulse[n]
                      /\ (~cfg.leak /\ layers'[l].spikes[n] = 0)
                            => layers'[l].mem[n] = layers[l].mem[n] + layers'[l].impulse[n]]_vars

\* a neuron that spiked in the step before is handed its full impulse
C6_Witness ==
    /\ cfg.tau_refrac = 0 /\ pc = "loop" /\ sim_step_int >= 2
    /\ spiketrains_n_b_l_t[1][sim_step_int - 1][1] # 0
    /\ layers[1].impulse[1] # 0
    /\ layers[1].mem_acc[1] = sim_step_int * layers[1].impulse[1]

\* ---------------------------------------------------------------- C7

TimeDecreases == \E l \in Layers : layers'[l].time < layers[l].time

\* C7 as stated: the time of a layer never decreases, except in a reset
\* that fires.
C7_TimeMonotone ==
    [][TimeDecreases => (hist'.op = "reset" /\ hist'.fired)]_vars

\* C7, amended: within a sample the time of every layer is dt, 2 dt, ... in
\* order and never decreases; it goes back to dt only at a sample boundary,
\* in a reset that fires or in the first set_time of the next sample.
C7_TimeMonotoneAmended ==
    [][/\ (pc = "loop" /\ hist'.op = "step")
            => \A l \in Layers : layers'[l].time = (sim_step_int + 1) * cfg.dt
       /\ TimeDecreases
            => /\ \A l \in Layers : layers'[l].time = cfg.dt
               /\ \/ hist'.op = "reset" /\ hist'.fired
                  \/ hist'.op = "step" /\ sim_step_int = 0 /\ ~do_reset(cfg, sample_idx)
       /\ hist'.op \notin {"reset", "step"} => \A l \in Layers : layers'[l].time = layers[l].time
       /\ (hist'.op = "reset" /\ ~hist'.fired)
            => \A l \in Layers : layers'[l].time = layers[l].time]_vars

\* the first step of a sample whose reset did not fire: the time is back at
\* dt and the potential of the sample before is still there
C7_Witness ==
    /\ hist.op = "step" /\ sample_idx >= 1 /\ ~do_reset(cfg, sample_idx)
    /\ sim_step_int = 1 /\ \A l \in Layers : layers[l].time = cfg.dt
    /\ layers[1].mem_acc[1] > layers[1].mem_input[1] /\ layers[1].mem_input[1] > 0

\* ---------------------------------------------------------------- C8

CeilThreeSigma(sums) ==
    LET v == ScaledVariance(sums)
        n == Cardinality(Pixels)
    IN  CHOOSE m \in 0..(3 * NumEventsPerSample) :
            /\ m * m * n * n >= 9 * v
            /\ \A k \in 0..(m - 1) : k * k * n * n < 9 * v

\* C9: after the 3-sigma clipping of a batch no pixel holds more events than
\* ceil(3 sigma), sigma being the standard deviation of the per-pixel counts
\* of the same frame before the clipping, and no pixel holds a negative count.
C9_ClippedToThreeSigma ==
    dvs_obs.op = "extract"
        => LET ceiling == CeilThreeSigma(dvs_obs.raw) IN
           \A p \in Pixels :
              /\ dvs_obs.clipped[p] <= ceiling
              /\ dvs_obs.clipped[p] >= 0
              /\ dvs_obs.clipped[p] <= dvs_obs.raw[p]

\* all events of a sample fell on one pixel and the clipping cut its count
C9_Witness ==
    /\ dvs_obs.op = "extract"
    /\ \E p \in Pixels : /\ dvs_obs.raw[p] = NumEventsPerSample
                         /\ dvs_obs.raw[p] > CeilThreeSigma(dvs_obs.raw)
                         /\ dvs_obs.clipped[p] >= 1
                         /\ dvs_obs.clipped[p] < dvs_obs.raw[p]

\* ---------------------------------------------------------------- C10

\* A spike budget is requested where it is not supported.
UnsupportedBudget ==
    /\ cfg.has_budget
    /\ cfg.reset # "Reset by subtraction" \/ cfg.input_mode \in {"dvs", "poisson"}

\* C10 as stated: a spike budget with another reset than by subtraction, or
\* with event or Poisson input, is rejected before the first step: the loop
\* of simulate is never entered.
C10_BudgetRejected == UnsupportedBudget => pc \notin {"loop", "break"}

\* C10, amended: such a configuration is not rejected; the simulation enters
\* its loop with the full number of steps, whatever the input, and runs them.
C10_BudgetIgnored ==
    UnsupportedBudget
        => /\ pc \in {"loop", "break"} => num_timesteps = NumTimesteps(cfg)
           /\ (pc = "loop" /\ hist.op = "budget") => t_budget = 0 /\ x_accum = Zeros
           /\ (hist.op = "end" /\ ~hist.stopped) => hist.steps = NumTimesteps(cfg)

\* an input that exceeds the budget in its first step was simulated to the end
C10_Witness ==
    /\ UnsupportedBudget /\ hist.op = "end" /\ hist.steps = NumTimesteps(cfg)
    /\ cfg.reset # "Reset by subtraction" /\ Sum(hist.sums) > cfg.max_num_input_spikes

\* ---------------------------------------------------------------- C11

\* C11: with a spike budget and event input, Poisson input or a reset other
\* than by subtraction the cap is a no-op: _get_timestep_at_spikecount
\* returns at once with the full duration/dt, as it does when no budget is
\* set, and the sample is simulated for all its steps unless the early stop
\* ends it.
C11_BudgetNoOp ==
    [][UnsupportedBudget
          => /\ pc = "budget"
                => /\ pc' = "loop"
                   /\ num_timesteps' = NumTimesteps(cfg)
                   /\ x_accum' = x_accum /\ t_budget' = t_budget
             /\ (pc = "loop" /\ hist'.op = "end")
                => sim_step_int = NumTimesteps(cfg) /\ hist'.steps = NumTimesteps(cfg)]_vars

\* a Poisson input that has spent more events than the budget is at its
\* last step
C11_Witness ==
    /\ UnsupportedBudget /\ cfg.input_mode = "poisson" /\ pc = "loop"
    /\ sim_step_int = NumTimesteps(cfg)
    /\ input_spikecount > cfg.max_num_input_spikes

\* ---------------------------------------------------------------- C12

\* C12: once a batch size that differs from the one in the stored
\* configuration was asserted, the stored configuration is still what it was,
\* and the run that follows is rejected before its batch loop.
C12_MismatchRejected ==
    [][run.pc = "loaded" /\ run.mismatch
          => /\ settings_batch_size = run.stored
             /\ run'.pc = "AssertionError"
             /\ settings_batch_size' = run.stored]_vars

\* ---------------------------------------------------------------- C13

\* The whole spikes in the fixed-point amount a >= 0.
WholeSpikes(a) ==
    CHOOSE w \in 0..(3 * (MaxBudgetTurns + 2)) : w * One <= a /\ a < (w + 1) * One

\* The input frame summed over k steps, counted as whole spikes over the
\* batch, exceeds the budget scaled to the batch of one sample.
ExceedsBudget(k) ==
    Sum([n \in Neurons |-> WholeSpikes(k * input_b_l[n])]) > cfg.max_num_input_spikes

\* t*: the smallest step count at which the cumulative input exceeds the budget
TStar ==
    CHOOSE k \in 1..(MaxBudgetTurns + 1) :
        ExceedsBudget(k) /\ \A j \in 1..(k - 1) : ~ExceedsBudget(j)

Min(a, b) == IF a < b THEN a ELSE b

\* Constant input, reset by subtraction and a budget.
CapCase ==
    cfg.has_budget /\ cfg.input_mode = "direct" /\ cfg.reset = "Reset by subtraction"

C14_RunStepsBounded == run.step * cfg.dt <= cfg.duration /\ run.pc # "IndexError"

\* ---------------------------------------------------------------- C15

\* The variables of a layer that a reset is about.
ResetVars == {"time", "mem", "mem_acc", "refrac_until", "spiketrain", "payloads",
              "payloads_sum", "spikecounts"}

\* Layer l holds, in ls, what init_neurons gives these variables.
Reinitialised(ls, l) == \A v \in ResetVars : ls[l][v] = init_neurons(cfg, l)[v]

\* C15: a reset at a sample for which the modulus does not fire leaves time,
\* mem, mem_acc, refrac_until, the spike train, the payloads and the spike
\* counters of every layer as they were; a reset that fires reinitialises
\* them all.
C15_ResetAllOrNothing ==
    [][(pc = "idle" /\ pc' = "ready")
          => \A l \in Layers :
                IF do_reset(cfg, sample_idx) THEN Reinitialised(layers', l)
                ELSE \A v \in ResetVars : layers'[l][v] = layers[l][v]]_vars

\* The half of C15 about a reset that fires.
C15_FiringResetReinitialises ==
    [][(pc = "idle" /\ pc' = "ready" /\ do_reset(cfg, sample_idx))
          => \A l \in Layers : Reinitialised(layers', l)]_vars

\* ---------------------------------------------------------------- C16

\* The buffers that are a layer's own.
OwnVars == {"mem", "mem_acc", "mem_input", "refrac_until", "payloads", "payloads_sum",
            "spikecounts", "max_spikerate", "v_thresh", "time"}

\* C16: in every state, advancing layer k on the current frame changes no
\* buffer of any other layer, the payloads and the accumulator of its inbound
\* layer included; layer k is advanced on the output that layer k - 1 has
\* just produced, the first layer on the frame; and the reset of the network
\* for the current sample gives each layer what the reset of that layer alone
\* gives it.
C16_LayerIsolation ==
    /\ \A rnd \in SoftmaxDraws(cfg) :
          LET upto == [k \in 0..NumLayers |-> predict_upto(cfg, layers, input_b_l, rnd, k)]
          IN  \A k \in Layers :
          LET before == upto[k - 1]
              after == upto[k]
          IN  /\ \A l \in Layers \ {k} : \A v \in OwnVars : after[l][v] = before[l][v]
              /\ ~cfg.payloads
                    => after[k].mem_input = (IF k = 1 THEN input_b_l ELSE before[k - 1].spikes)
              /\ cfg.payloads /\ k > 1
                    => after[k].mem_input = add_payloads(before[k - 1], before[k - 1].spikes)
    /\ \A l \in Layers :
          reset(cfg, layers, sample_idx)[l] = reset_spikevars(cfg, layers[l], sample_idx)

\* The second layer is about to read payloads that its inbound layer holds
\* for a neuron whose spike it passes on.
C16_Witness ==
    /\ cfg.payloads
    /\ pc = "loop"
    /\ sim_step_int < num_timesteps
    /\ \E n \in Neurons :
          LET first == predict_upto(cfg, layers, input_b_l, NoRnd, 1)
          IN  first[1].payloads[n] # 0 /\ first[1].spikes[n] # 0 /\ first[1].mem_acc[n] # 0

\* ---------------------------------------------------------------- C17

\* The Poisson event budget of configuration c is reached at the count.
PoissonBudgetReached(c, count) ==
    /\ c.input_mode = "poisson"
    /\ c.num_poisson_events_per_sample >= 0
    /\ count >= c.num_poisson_events_per_sample

\* What C17 says of the drained archive and of the Poisson budget, and that
\* the run goes on to its result: StopIteration leaves the batch loop of
\* SNN.run for its result; a step taken with the Poisson budget reached is
\* fed an all-zero frame; the batch loop that was left returns the accuracy,
\* and the step loop that was left returns the cumulative spikes.
ExhaustionIsNormal ==
    /\ (dvs_pc = "next" /\ dvs_pc' = "stop") => run'.pc = "result"
    /\ (pc = "loop" /\ hist'.op = "step" /\ PoissonBudgetReached(cfg, input_spikecount))
          => input_b_l' = Zeros
    /\ (run.pc = "steps" /\ run'.op = "step"
           /\ PoissonBudgetReached(cfg, run.input_spikecount))
          => run'.frame = Zeros /\ run'.pc = "steps"
    /\ run.pc = "result" => run'.pc = "returned" /\ run'.result # "none"
    /\ pc = "break"
          => pc' = "idle" /\ hist'.op = "end" /\ hist'.returned = cumsum(output_b_l_t)

\* SNN.simulate takes a step whose frame is all zero.
ZeroFrameStep == pc = "loop" /\ hist'.op = "step" /\ input_b_l' = Zeros

\* C17: input exhaustion is never an error: the drained event archive ends
\* the batch loop, the reached Poisson budget yields all-zero frames, the run
\* goes on to its result, and an all-zero frame ends the step loop of the
\* sample.
C17_ExhaustionEndsLoop ==
    [][ExhaustionIsNormal /\ (ZeroFrameStep => pc' = "break")]_vars

\* C17 as the code has it: the all-zero frame ends the step loop of
\* SNN.simulate exactly when early stopping is enabled, and is simulated as
\* any other frame when it is not and in SNN.run.
C17_ExhaustionIsNoError ==
    [][/\ ExhaustionIsNormal
       /\ ZeroFrameStep
             => IF cfg.early_stopping THEN pc' = "break"
                ELSE pc' = "loop" /\ sim_step_int' = sim_step_int + 1
       /\ (run.pc = "steps" /\ run'.op = "step" /\ run'.frame = Zeros)
             => run'.pc = "steps" /\ run'.step = run.step + 1]_vars

\* SNN.run has drained the event archive after at least one batch and has
\* returned its accuracy.
C17_Witness ==
    /\ driver = "run"
    /\ dvs_pc = "stop"
    /\ run.pc = "returned"
    /\ Len(run.truth_d) > 0
    /\ run.result # "nan"

\* ---------------------------------------------------------------- C18

\* The variables that make up the neuron state of a layer.
NeuronState == OwnVars \cup {"spiketrain"}

\* A layer of one of the classes in K holds no neuron state: no step of the
\* program changes any of its variables; when the network is advanced its
\* output is its current input, value by value; and nothing of it is written
\* to the spike-train statistics.
Stateless(K) ==
    \A l \in Layers :
       cfg.layer_class[l] \in K
          => /\ \A v \in NeuronState : layers'[l][v] = layers[l][v]
             /\ (pc = "loop" /\ pc' = "loop" /\ hist'.op = "step")
                   => layers'[l].spikes = (IF l = 1 THEN input_b_l' ELSE layers'[l - 1].spikes)
             /\ spiketrains_n_b_l_t'[l] = ZeroSteps(cfg)

\* C18: reshape, flatten, zero-pad, concatenate and up-sampling layers hold
\* no neuron state, pass their input on unchanged and are left out of the
\* statistics.
C18_ShapeLayersStateless ==
    [][Stateless(PlainClasses \cup {"SpikeUpSampling2D"})]_vars

\* C18 as the code has it: reshape, flatten, zero-pad and concatenate layers
\* hold no neuron state, pass their input on unchanged and are left out of
\* the statistics; the up-sampling layer is a spiking layer, which is timed,
\* integrates its input and has its spike train recorded at every step.
C18_PlainLayersStateless ==
    [][/\ Stateless(PlainClasses)
       /\ \A l \in Layers :
             (cfg.layer_class[l] = "SpikeUpSampling2D"
                 /\ pc = "loop" /\ pc' = "loop" /\ hist'.op = "step")
                => /\ layers'[l].time = sim_step_int' * cfg.dt
                   /\ layers'[l].mem_input = (IF l = 1 THEN input_b_l' ELSE layers'[l - 1].spikes)
                   /\ layers'[l].mem_acc =
                         [n \in Neurons |-> layers[l].mem_acc[n] + layers'[l].mem_input[n]]
                   /\ spiketrains_n_b_l_t'[l][sim_step_int'] = layers'[l].spiketrain]_vars

\* A plain layer has passed spikes on to the layer after it, which has
\* integrated them.
C18_Witness ==
    /\ cfg.layer_class[1] \in PlainClasses
    /\ pc = "loop"
    /\ sim_step_int > 0
    /\ \E n \in Neurons : layers[1].spikes[n] # 0 /\ layers[2].mem_input[n] = layers[1].spikes[n]

\* ---------------------------------------------------------------- C19

\* The layers ls with the activation tag a on each of them.
Retagged(ls, a) == [l \in Layers |-> [ls[l] EXCEPT !.activation_str = a]]

\* The configuration of the same network with relu layers, which use the
\* unipolar linear_activation.
ReluConfig == [cfg EXCEPT !.activation_str = [l \in Layers |-> "relu"]]

\* C19: a network whose layers are tagged Q(m,f) goes through the states and
\* emits the spikes of the same network with the unipolar linear policy: from
\* the same state, each reset and each advance on the same frame leaves both
\* in the same state, the output spikes included.
C19_QuantizedIsLinear ==
    [][(\A l \in Layers : IsQuantized(cfg.activation_str[l]))
          => /\ (pc = "idle" /\ pc' = "ready")
                => Retagged(layers', "relu")
                      = reset(ReluConfig, Retagged(layers, "relu"), sample_idx)
             /\ (pc = "loop" /\ pc' = "loop" /\ hist'.op = "step")
                => Retagged(layers', "relu")
                      = predict_on_batch(ReluConfig,
                                         Retagged(set_time(layers, sim_step_int' * cfg.dt),
                                                  "relu"),
                                         input_b_l', NoRnd)]_vars

\* A quantized layer has spiked while one of its neurons holds a potential
\* at or below minus the threshold, where a bipolar policy would spike too.
C19_Witness ==
    /\ \A l \in Layers : IsQuantized(cfg.activation_str[l])
    /\ pc = "loop"
    /\ \E n \in Neurons : layers[1].spikes[n] > 0
    /\ \E n \in Neurons : layers[1].mem[n] <= -layers[1].v_thresh /\ layers[1].spikes[n] = 0

\* ---------------------------------------------------------------- C20

\* The steps of the current sample at which neuron n of layer l has spiked.
SpikeSteps(l, n) == {k \in 1..sim_step_int : spiketrains_n_b_l_t[l][k][n] # 0}

\* The time of the last of them.
LastSpikeTime(l, n) ==
    cfg.dt * (CHOOSE k \in SpikeSteps(l, n) : \A j \in SpikeSteps(l, n) : j <= k)

C21_QuietAfterResetToZero ==
    [][(/\ cfg.tau_refrac > 0
        /\ cfg.reset = "Reset to zero"
        /\ cfg.activation_str[NumLayers] \in {"relu", "linear", "leakyrelu", "relu_Q1.2"}
        /\ Advanced)
          => \A l \in Layers : \A n \in Neurons :
                (/\ SpikeSteps(l, n) # {}
                 /\ layers'[l].time < LastSpikeTime(l, n) + cfg.tau_refrac)
                   => layers'[l].spikes[n] = 0]_vars

\* ---------------------------------------------------------------- C22

\* Whether the input of neuron n of layer l was gated at step k of the
\* current sample: an earlier spike of the sample holds it refractory.
GatedAt(l, n, k) ==
    /\ cfg.tau_refrac > 0
    /\ \E j \in 1..(k - 1) :
          /\ spiketrains_n_b_l_t[l][j][n] # 0
          /\ k * cfg.dt < j * cfg.dt + cfg.tau_refrac

\* C22: mem_acc is the running sum of the gated inputs since the last reset
\* that fired. Every advance adds the gated input of the step to it, whatever
\* spikes fired, whichever reset policy is configured and with or without
\* leak; a reset that fires clears it and nothing else changes it. In the
\* first sample, on constant input, the accumulator of the first layer after
\* n steps is n times the frame less the gated steps.
C22_AccumulatorIsInputSum ==
    [][/\ \A l \in Layers : \A n \in Neurons :
            layers'[l].mem_acc[n] =
                IF Advanced
                THEN layers[l].mem_acc[n]
                        + (IF cfg.tau_refrac > 0 /\ layers[l].refrac_until[n] > layers'[l].time
                           THEN 0 ELSE layers'[l].impulse[n])
                ELSE IF hist'.op = "reset" /\ hist'.fired THEN 0
                ELSE layers[l].mem_acc[n]
       /\ (pc' = "loop" /\ sample_idx' = 0 /\ cfg.input_mode = "direct")
             => \A n \in Neurons :
                   layers'[1].mem_acc[n] =
                      input_b_l'[n]
                         * Cardinality({k \in 1..sim_step_int' : ~GatedAt(1, n, k)'})]_vars

\* Two steps with leak on a neuron that spiked at the first: its potential
\* was reset and has leaked, its accumulator holds both inputs.
C22_Witness ==
    /\ cfg.leak
    /\ pc = "loop"
    /\ sim_step_int = 2
    /\ \E n \in Neurons :
          /\ spiketrains_n_b_l_t[1][1][n] # 0
          /\ layers[1].mem_acc[n] = 2 * input_b_l[n]
          /\ layers[1].mem[n] # layers[1].mem_acc[n]

\* ---------------------------------------------------------------- C23

\* The configurations that differ from the default in the activation, alone
\* or together with online normalization, the reset policy or the time step.
ActivationConfigs ==
    {c \in MainConfigs :
        Departures(c) \subseteq {"activation_str", "online_normalization", "reset", "dt"}}

InitActivations == InitWith(ActivationConfigs)

SpecActivations == InitActivations /\ [][Next]_vars

\* Membrane potentials around every comparison an activation makes with the
\* threshold v.
PotentialsAround(v) ==
    {-10 * v - 1, -10 * v, -10 * v + 1, -v - 1, -v, -v + 1, -1, 0, 1, v - 1, v, v + 1,
     10 * v}

Uniform(m) == [n \in Neurons |-> m]

Unipolar == {"softmax", "binary_sigmoid", "relu"} \cup QuantizedTags

\* The spikes each activation policy gives on the potential m at threshold v
\* (softmax: for either outcome of its draw).
PolicyOutputs(m, v) ==
    [softmax |-> {softmax_activation(Uniform(m), v, Uniform(b))[1] : b \in BOOLEAN},
     linear |-> {linear_activation(Uniform(m), v)[1]},
     bipolar |-> {pool_linear_activation(Uniform(m), v)[1]},
     binary_sigmoid |-> {binary_sigmoid_activation(Uniform(m), v)[1]},
     binary_tanh |-> {binary_tanh_activation(Uniform(m), v)[1]},
     leakyrelu |-> {leakyrelu_activation(Uniform(m), v)[1]},
     quantized |-> {quantized_activation(Uniform(m), v)[1]}]

\* C23: every spike an activation emits is 0, +v_thresh or -v_thresh, and
\* softmax, linear and binary sigmoid (and the quantized stub) emit only 0 or
\* +v_thresh; the positive and the negative condition of a policy never hold
\* together, so that a spike of +v_thresh or -v_thresh tells which one held.
\* Checked for the spikes every layer emitted and, at every threshold a
\* layer reaches, for each policy on the potentials around its comparisons.
C23_SpikeValues ==
    \A l \in Layers :
       LET v == layers[l].v_thresh IN
       /\ v > 0
       /\ \A n \in Neurons :
             /\ layers[l].spikes[n] \in {0, v, -v}
             /\ layers[l].activation_str \in Unipolar => layers[l].spikes[n] \in {0, v}
       /\ \A m \in PotentialsAround(v) :
             LET out == PolicyOutputs(m, v) IN
             /\ \A k \in DOMAIN out : out[k] \subseteq {0, v, -v}
             /\ \A k \in {"softmax", "linear", "binary_sigmoid", "quantized"} :
                   out[k] \subseteq {0, v}
             /\ out.linear = {IF m >= v THEN v ELSE 0}
             /\ out.binary_sigmoid = {IF m > 0 THEN v ELSE 0}
             /\ out.bipolar = {IF m >= v THEN v ELSE IF m <= -v THEN -v ELSE 0}
             /\ out.binary_tanh = {IF m > 0 THEN v ELSE IF m < 0 THEN -v ELSE 0}
             /\ out.leakyrelu = {IF m >= v THEN v ELSE IF m <= -10 * v THEN -v ELSE 0}
             /\ ~(m >= v /\ m <= -v)
             /\ ~(m >= v /\ m <= -10 * v)
             /\ ~(m > 0 /\ m < 0)

\* A leaky-relu neuron whose input has reached ten thresholds below zero has
\* emitted a negative spike of one threshold.
C23_Witness ==
    /\ pc = "loop"
    /\ \E n \in Neurons :
          /\ layers[1].activation_str = "leakyrelu"
          /\ layers[1].spikes[n] = -layers[1].v_thresh
          /\ layers[1].mem_acc[n] <= -10 * layers[1].v_thresh

\* ---------------------------------------------------------------- C24

\* The membrane potential of layer l in this step before its reset: the
\* potential integrated (and leaked) from the state the step starts in, at
\* the time and on the impulse of the step.
MemBeforeReset(l) ==
    get_new_mem(cfg, [layers[l] EXCEPT !.time = layers'[l].time,
                                       !.impulse = layers'[l].impulse])[1]

PayloadConfigs == {c \in MainConfigs : c.payloads /\ Departures(c) \subseteq LocalOptions}

InitPayloads == InitWith(PayloadConfigs)

SpecPayloads == InitPayloads /\ [][Next]_vars

\* C25: with payloads relayed and reset by subtraction configured, the reset
\* sets the potential of every neuron that spiked to zero and leaves the
\* potential of every neuron that did not spike as it was before the reset.
C25_PayloadResetToZero ==
    [][(cfg.payloads /\ cfg.reset = "Reset by subtraction" /\ Advanced)
          => \A l \in Layers : \A n \in Neurons :
                layers'[l].mem[n] =
                   IF layers'[l].spikes[n] # 0 THEN 0 ELSE MemBeforeReset(l)[n]]_vars

\* A neuron driven to 2.5 thresholds in one step has spiked and holds no
\* potential, where the subtraction would have left 1.5.
C25_Witness ==
    /\ cfg.payloads
    /\ cfg.reset = "Reset by subtraction"
    /\ pc = "loop"
    /\ sim_step_int = 1
    /\ \E n \in Neurons :
          /\ layers[1].activation_str # "softmax"
          /\ layers[1].spikes[n] # 0
          /\ layers[1].mem_acc[n] > layers[1].v_thresh
          /\ layers[1].mem[n] = 0

\* ---------------------------------------------------------------- C26

\* The residual of neuron n of layer l in this step: the potential before
\* the reset, less the threshold where the neuron spiked.
Residual(l, n) ==
    IF layers'[l].spikes[n] # 0 THEN MemBeforeReset(l)[n] - One ELSE MemBeforeReset(l)[n]

\* C26: with payloads relayed, every advance sets
\* payloads = residual - payloads_sum(before) and then
\* payloads_sum = payloads_sum(before) + the new payloads, so that after the
\* step payloads_sum equals the residual of the step.
C26_PayloadSumIsResidual ==
    [][(cfg.payloads /\ Advanced)
          => \A l \in Layers : \A n \in Neurons :
                /\ layers'[l].payloads[n] = Residual(l, n) - layers[l].payloads_sum[n]
                /\ layers'[l].payloads_sum[n]
                      = layers[l].payloads_sum[n] + layers'[l].payloads[n]
                /\ layers'[l].payloads_sum[n] = Residual(l, n)]_vars

\* What update_payload does: where the neuron spiked the payload is the
\* residual less the sum, and the sum grows by the payload of the step
\* before; elsewhere both are kept.
C26_PayloadSumLags ==
    [][(cfg.payloads /\ Advanced)
          => \A l \in Layers : \A n \in Neurons :
                IF layers'[l].spikes[n] # 0
                THEN /\ layers'[l].payloads[n] = Residual(l, n) - layers[l].payloads_sum[n]
                     /\ layers'[l].payloads_sum[n]
                           = layers[l].payloads_sum[n] + layers[l].payloads[n]
                ELSE /\ layers'[l].payloads[n] = layers[l].payloads[n]
                     /\ layers'[l].payloads_sum[n] = layers[l].payloads_sum[n]]_vars

\* ---------------------------------------------------------------- C27

\* The configurations with online normalization, alone or together with one
\* other option of the layer or with the reset between samples.
OnlineConfigs == {c \in MainConfigs : c.online_normalization}

InitOnline == InitWith(OnlineConfigs)

SpecOnline == InitOnline /\ [][Next]_vars

\* thr_min + (thr_max - thr_min) * max_spikerate / r_lim for the rate r, kept
\* in units of 1/L, with thr_max = 1, thr_min = 1/100 and r_lim = 1/dt.
ThresholdAt(r) == One \div 100 + (99 * (One \div 100) * r * cfg.dt) \div L

\* C27: with online normalization, every step adds 1 to the spike count of
\* each neuron that emitted a non-zero spike and leaves
\* max_spikerate = max(spikecounts) * dt / time; the threshold the
\* activation of a step applies is the one computed from the max_spikerate
\* the step before left, so the spikes of a step enter the thresholds of
\* later steps only.
C27_OnlineNormalization ==
    [][(cfg.online_normalization /\ Advanced)
          => \A l \in Layers :
                /\ layers'[l].v_thresh = ThresholdAt(layers[l].max_spikerate)
                /\ \A n \in Neurons :
                      /\ layers'[l].spikes[n] \in {0, layers'[l].v_thresh, -layers'[l].v_thresh}
                      /\ layers'[l].spikecounts[n] =
                            layers[l].spikecounts[n]
                               + (IF layers'[l].spikes[n] # 0 THEN 1 ELSE 0)
                /\ layers'[l].max_spikerate * layers'[l].time
                      = MaxOf(layers'[l].spikecounts) * cfg.dt * L]_vars

\* A neuron spiked at the least threshold in the first step, which raised
\* the threshold of the second step to the base threshold; there it holds a
\* potential above the least threshold and is silent, and the rate left is
\* one spike in two steps.
C27_Witness ==
    /\ cfg.online_normalization
    /\ pc = "loop"
    /\ sim_step_int = 2
    /\ layers[1].v_thresh = ThresholdAt(L)
    /\ 2 * layers[1].max_spikerate = L
    /\ \E n \in Neurons :
          /\ spiketrains_n_b_l_t[1][1][n] # 0
          /\ layers[1].spikes[n] = 0
          /\ layers[1].mem[n] > One \div 100
          /\ layers[1].spikecounts[n] = 1

\* ---------------------------------------------------------------- C28

\* The networks with trained biases of -3 and 2, simulated for RateSteps
\* steps of dt 1 or 2; the layers carry the indices 25, 50, ... and the
\* output layer the index 100, at which the factor is clipped to 0.
BiasConfigs ==
    UNION {{[DefaultConfig EXCEPT
                !.dt = dt, !.duration = RateSteps * dt, !.bias = b,
                !.layer_idx = [l \in Layers |-> IF l = NumLayers THEN 100 ELSE 25 * l]] :
              b \in [Layers -> {-3 * BiasUnit(RateSteps * dt), 2 * BiasUnit(RateSteps * dt)}]} :
           dt \in {1, 2}}

InitBias == InitProgram(BiasConfigs, "update_b", {1})

SpecBias == InitBias /\ [][NextBias]_vars

\* clip(1 - (1 - 2 t / duration) * i / 50, 0, 1) times 50 * duration
RelaxationFactor(l, t) ==
    LET den == 50 * cfg.duration
        raw == den - (cfg.duration - 2 * t) * cfg.layer_idx[l]
    IN  IF raw < 0 THEN 0 ELSE IF raw > den THEN den ELSE raw

\* C28: after any number of bias-relaxation updates, the bias of a layer at
\* time t is its trained, dt-scaled bias times
\* clip(1 - (1 - 2 t / duration) * layer index / 50, 0, 1): the updates do
\* not compound.
C28_BiasFromTrained ==
    hist.op = "update_b"
       => \A l \in Layers :
             layers[l].bias * 50 * cfg.duration
                = cfg.bias[l] * cfg.dt * RelaxationFactor(l, layers[l].time)

\* What update_b does: every update multiplies the bias the layer holds by
\* the factor of the current time.
C28_BiasCompounds ==
    [][hist'.op = "update_b"
          => \A l \in Layers :
                layers'[l].bias * 50 * cfg.duration
                   = layers[l].bias * RelaxationFactor(l, layers[l].time)]_vars

\* ---------------------------------------------------------------- C29

\* The Poisson configurations: no event budget, a budget of 0 and a budget of
\* 2 events per sample, on inputs that are negative (-5), zero, or positive
\* (0.37, which every draw admits when it is the maximum).
PoissonConfigs ==
    {[DefaultConfig EXCEPT !.input_mode = "poisson", !.num_poisson_events_per_sample = pe,
                           !.levels = {Pct(-500), Pct(0), Pct(37)}] :
        pe \in {-1, 0, 2}}

InitPoisson ==
    \/ InitProgram(PoissonConfigs, "simulate", {1})
    \/ InitProgram(PoissonConfigs, "run", {1})

SpecPoisson == InitPoisson /\ [][NextFrames]_vars

\* A step of the time loop of either driver was taken.
SimStepped == driver = "simulate" /\ pc = "loop" /\ hist'.op = "step"
RunStepped == driver = "run" /\ run.pc = "steps" /\ run'.op = "step"

Suppressed(count) ==
    /\ cfg.num_poisson_events_per_sample >= 0
    /\ count >= cfg.num_poisson_events_per_sample

\* C29: in Poisson mode the count of input events is 0 when the time loop of
\* a sample starts and never decreases during the sample; once it has
\* reached a budget B >= 0, every later frame of the sample is all-zero (and
\* counts nothing); before that, and always with B < 0, the frame is an
\* outcome of the draw and its events are counted.
C29_PoissonBudget ==
    [][/\ (driver' = "simulate" /\ pc' = "loop" /\ sim_step_int' = 0 /\ hist'.op # "step")
             => input_spikecount' = 0
       /\ (driver' = "run" /\ run'.pc = "steps" /\ run'.step = 0 /\ run'.op # "step")
             => run'.input_spikecount = 0
       /\ SimStepped
             => /\ input_spikecount' >= input_spikecount
                /\ IF Suppressed(input_spikecount)
                   THEN input_b_l' = Zeros /\ input_spikecount' = input_spikecount
                   ELSE \E b \in poisson_snapshots(cfg, x_b_l) :
                           /\ input_spikecount' = input_spikecount + CountNonzero(b)
                           /\ \A n \in Neurons : (input_b_l'[n] # 0) => (b[n] = 1)
                           /\ \A n \in Neurons : (b[n] = 1 /\ x_b_l[n] # 0 /\ MaxOf(x_b_l) # 0)
                                                    => input_b_l'[n] # 0
       /\ RunStepped
             => /\ run'.input_spikecount >= run.input_spikecount
                /\ IF Suppressed(run.input_spikecount)
                   THEN run'.frame = Zeros /\ run'.input_spikecount = run.input_spikecount
                   ELSE \E b \in run_snapshots(cfg, run.x_b) :
                           /\ run'.input_spikecount = run.input_spikecount + CountNonzero(b)
                           /\ \A n \in Neurons : (run'.frame[n] # 0) <=> (b[n] = 1)]_vars

\* The input 0.37 emits two events at every step: with a budget of 2 the
\* second frame of the sample is all-zero and the count stays at 2.
C29_Witness ==
    /\ driver = "simulate"
    /\ cfg.num_poisson_events_per_sample = 2
    /\ pc = "loop"
    /\ sim_step_int = 2
    /\ x_b_l = [n \in Neurons |-> Pct(37)]
    /\ input_spikecount = NumNeurons
    /\ input_b_l = Zeros

\* ---------------------------------------------------------------- C30

\* C30: in Poisson mode every non-zero element of an emitted frame has the
\* sign of the analog input element it was drawn from, whatever the signs of
\* the batch; an element whose input is 0 is never emitted as a spike.
C30_SpikeSignFollowsInput ==
    /\ (driver = "simulate" /\ hist.op = "step")
          => \A n \in Neurons :
                input_b_l[n] # 0 => Sign(input_b_l[n]) = Sign(x_b_l[n])
    /\ (driver = "run" /\ run.op = "step")
          => \A n \in Neurons :
                run.frame[n] # 0 => Sign(run.frame[n]) = Sign(run.x_b[n])

\* What get_poisson_frame_batch gives: the sign of the input times the sign
\* of the maximum of the batch, so the sign of the input where some element
\* of the batch is positive.
C30_SignTimesSignOfMax ==
    (driver = "simulate" /\ hist.op = "step")
       => \A n \in Neurons :
             input_b_l[n] # 0 => Sign(input_b_l[n]) = Sign(x_b_l[n]) * Sign(MaxOf(x_b_l))

\* ---------------------------------------------------------------- C31

\* A step of SNN.run on event input built a frame.
FrameBuilt == RunStepped /\ cfg.input_mode = "dvs"

\* The positions of the pending queue whose event the step admitted: the
\* timestamps of a batch are distinct, so the admitted events are those whose
\* timestamp left the queue.
Admitted == {i \in DOMAIN x_b_ts : \A j \in DOMAIN x_b_ts' : x_b_ts'[j] # x_b_ts[i]}

\* C31: every value of an event frame is 0 or 1 (at most one event per
\* pixel), and every event admitted to a frame has a timestamp no later than
\* eventframe_width after the first event of the frame: an event beyond that
\* span is not admitted.
C31_FrameWithinSpan ==
    [][FrameBuilt
          => /\ \A p \in Pixels : run'.inp[p] \in {0, 1}
             /\ \A i \in Admitted : x_b_ts[i] - x_b_ts[1] <= eventframe_width]_vars

\* What the loop does: the frame holds 0 or 1 at every pixel, no two admitted
\* events share a pixel, and only the last admitted event can lie beyond the
\* span (the span is tested after the event was admitted).
C31_OnlyLastBeyondSpan ==
    [][FrameBuilt
          => /\ \A p \in Pixels : run'.inp[p] \in {0, 1}
             /\ \A i, j \in Admitted :
                   i < j => /\ <<x_b_xaddr[i], x_b_yaddr[i]>> # <<x_b_xaddr[j], x_b_yaddr[j]>>
                            /\ x_b_ts[i] - x_b_ts[1] <= eventframe_width]_vars

\* ---------------------------------------------------------------- C32

\* The events of the returned batch that lie on pixel p.
KeptAt(p) == {k \in DOMAIN x_b_ts : <<x_b_xaddr[k], x_b_yaddr[k]>> = p}

\* C32: for each sample extracted from the stream, the events kept after the
\* clipping plus the reported number of discarded events are the fixed number
\* of events per sample; each pixel keeps as many events as its clipped
\* count; the kept events are events of the stream, in stream order.
C32_KeptPlusDiscarded ==
    dvs_obs.op = "extract"
        => /\ Len(x_b_xaddr) = Len(x_b_ts) /\ Len(x_b_yaddr) = Len(x_b_ts)
           /\ Len(x_b_ts) + dvs_obs.discarded = NumEventsPerSample
           /\ \A p \in Pixels : Cardinality(KeptAt(p)) = dvs_obs.clipped[p]
           /\ \A k \in DOMAIN x_b_ts :
                 /\ x_b_ts[k] \in DOMAIN dvs_sample
                 /\ dvs_sample[x_b_ts[k]] = <<x_b_xaddr[k], x_b_yaddr[k]>>
                 /\ k > 1 => x_b_ts[k - 1] < x_b_ts[k]

\* a batch of which the clipping discarded an event and kept two on two
\* pixels, the discarded one lying between them in the stream
C32_Witness ==
    /\ dvs_obs.op = "extract"
    /\ dvs_obs.discarded = 1
    /\ Len(x_b_ts) = 2
    /\ x_b_ts[2] = x_b_ts[1] + 2
    /\ <<x_b_xaddr[1], x_b_yaddr[1]>> # <<x_b_xaddr[2], x_b_yaddr[2]>>

\* ---------------------------------------------------------------- C33

\* Whether m <= mean + 3 * sigma for the raster sums, compared exactly:
\* n * m - sum(c) <= 3 * sqrt(n * sum(c^2) - sum(c)^2)
AtMostMeanPlusThreeSigma(m, sums) ==
    LET d == Cardinality(Pixels) * m - SumOver(sums, Pixels)
    IN  d <= 0 \/ d * d <= 9 * ScaledVariance(sums)

C33_LimitIsThreeSigma ==
    dvs_obs.op = "extract"
        => LET v == ScaledVariance(dvs_obs.raw) IN
           \A p \in Pixels :
              IF AtMostThreeSigma(dvs_obs.raw[p], v)
              THEN dvs_obs.clipped[p] = dvs_obs.raw[p]
              ELSE /\ AtMostThreeSigma(dvs_obs.clipped[p], v)
                   /\ ~AtMostThreeSigma(dvs_obs.clipped[p] + 1, v)

\* ---------------------------------------------------------------- C34

\* A convolution layer followed by a max-pooling layer, on constant input
\* that changes from one sample to the next; with a reset modulus of 2 the
\* second sample continues from the state the first one left.
PoolingConfigs ==
    {[DefaultConfig EXCEPT !.layer_class = <<"SpikeConv2D", "SpikeMaxPooling2D">>,
                           !.activation_str = <<"relu", "None">>,
                           !.reset_between_nth_sample = md,
                           !.levels = {Pct(0), Pct(100), Pct(150)}] :
        md \in {1, 2}}

InitPooling == InitWith(PoolingConfigs)

SpecPooling == InitPooling /\ [][Next]_vars

\* The positions of window w where the accumulator acc is greatest.
ArgMaxOver(acc, w) == {n \in Window(w) : \A m \in Window(w) : acc[m] <= acc[n]}

\* C34: for every window of a spiking max-pooling layer the value emitted at
\* a step is 0 (the gate is closed) or the spike value, at this step, of a
\* position where the accumulator mem_acc of the inbound layer is greatest
\* over the window; it is never the value of another position.
C34_WinnerByAccumulator ==
    [][SimStepped
          => \A l \in Layers \ {1} :
                IsPooling(layers'[l].class_name)
                   => \A w \in Neurons :
                         \/ layers'[l].impulse[w] = 0
                         \/ \E n \in ArgMaxOver(layers'[l - 1].mem_acc, w) :
                               layers'[l].impulse[w] = layers'[l - 1].spikes[n]]_vars

\* What the call computes: the value emitted is 0 or the spike value, at this
\* step, of a position where the sum of the layer's last input and its
\* present input is greatest over the window.
C34_WinnerByLastTwoInputs ==
    [][SimStepped
          => \A l \in Layers \ {1} :
                IsPooling(layers'[l].class_name)
                   => LET y == [n \in Neurons |->
                                   layers[l].mem_input[n] + layers'[l - 1].spikes[n]]
                      IN  \A w \in Neurons :
                             \/ layers'[l].impulse[w] = 0
                             \/ \E n \in ArgMaxOver(y, w) :
                                   layers'[l].impulse[w] = layers'[l - 1].spikes[n]]_vars

\* ---------------------------------------------------------------- C35

\* Reset by subtraction with a fixed threshold, no leak, no payload relay and
\* no refractoriness, every sample starting from a reset.
Conserving(c) ==
    /\ c.reset = "Reset by subtraction"
    /\ ~c.leak /\ ~c.payloads /\ ~c.online_normalization
    /\ c.tau_refrac = 0
    /\ c.reset_between_nth_sample = 1

\* The steps of the sample at which neuron n of layer l emitted a positive
\* spike, and those at which it emitted a negative one.
PositiveSpikes(l, n) == {k \in 1..sim_step_int : spiketrains_n_b_l_t[l][k][n] > 0}
NegativeSpikes(l, n) == {k \in 1..sim_step_int : spiketrains_n_b_l_t[l][k][n] < 0}

\* mem = mem0 + sum of the inputs - theta * positive spikes + theta * negative
\* spikes, with mem0 = 0 after the reset and mem_acc the sum of the inputs.
ChargeConserved(l) ==
    \A n \in Neurons :
       layers[l].mem[n] = init_membrane_potential[n] + layers[l].mem_acc[n]
                             - layers[l].v_thresh * Cardinality(PositiveSpikes(l, n))
                             + layers[l].v_thresh * Cardinality(NegativeSpikes(l, n))

\* The reset of the step left the potential of every silent neuron of layer
\* l as the integration made it.
ResetOnlyWhereSpiked(l) ==
    \A n \in Neurons :
       layers'[l].spikes[n] = 0
          => layers'[l].mem[n] = layers[l].mem[n] + layers'[l].impulse[n]

\* C35: charge conservation under reset by subtraction. In every layer that
\* is not leaky-relu, with a fixed threshold theta, no leak, no payload relay
\* and no refractoriness, after any number of steps since a reset
\* mem = mem0 + (sum of the inputs) - theta * (positive spikes emitted)
\* + theta * (negative spikes emitted), and the reset changes the potential
\* only where the neuron spiked.
C35_ChargeConserved ==
    [][(Advanced /\ Conserving(cfg))
          => \A l \in Layers :
                cfg.activation_str[l] # "leakyrelu"
                   => ChargeConserved(l)' /\ ResetOnlyWhereSpiked(l)]_vars

\* C35, amended: the same in every layer that is neither leaky-relu nor
\* softmax (a softmax layer is reset to zero where it spiked).
C35_ChargeConservedBelowSoftmax ==
    [][(Advanced /\ Conserving(cfg))
          => \A l \in Layers :
                cfg.activation_str[l] \notin {"leakyrelu", "softmax"}
                   => ChargeConserved(l)' /\ ResetOnlyWhereSpiked(l)]_vars

\* a neuron driven by 2.5 per step has spiked twice and keeps 2 * 2.5 - 2,
\* and a neuron driven by -5 has emitted a negative spike
C35_Witness ==
    /\ Conserving(cfg) /\ cfg.dt = 1
    /\ pc = "loop" /\ sim_step_int = 2
    /\ \E n \in Neurons :
          /\ Cardinality(PositiveSpikes(1, n)) = 2
          /\ layers[1].mem[n] = 2 * Pct(250) - 2 * One
    /\ \E n \in Neurons :
          /\ Cardinality(NegativeSpikes(1, n)) = 2
          /\ layers[1].mem[n] = 2 * Pct(-500) + 2 * One

\* ---------------------------------------------------------------- C36

\* A spike budget of 1 in direct-input mode with reset by subtraction, on
\* batches of negative (-5), zero and positive (0.5 and 1) elements: a batch
\* with a positive sum exceeds the budget within MaxBudgetTurns turns of the
\* loop of _get_timestep_at_spikecount, later than duration/dt when its only
\* positive element is 0.5.
TerminationConfigs ==
    {[DefaultConfig EXCEPT !.has_budget = TRUE, !.max_num_input_spikes = 1,
                           !.levels = {Pct(-500), Pct(0), Pct(50), Pct(100)}]}

InitTermination == InitWith(TerminationConfigs)

\* SNN.simulate runs sequentially: a step that can be taken is taken.
SpecTermination == InitTermination /\ [][Next]_vars /\ WF_vars(Next)

\* C36: with a spike budget in direct-input mode and reset by subtraction the
\* computation of the step cap terminates for every input batch (all-zero
\* batches, batches without a positive element and weak batches included):
\* a call of _get_timestep_at_spikecount is followed by the time loop.
C36_StepCapTerminates == (pc = "budget") ~> (pc = "loop")

\* The computation terminates for every batch whose elements have a
\* positive sum.
C36_TerminatesWithCharge == (pc = "budget" /\ Sum(input_b_l) > 0) ~> (pc = "loop")

\* The loop is still turning after MaxBudgetTurns turns only on a batch whose
\* sum is not positive, and then the count of whole spikes has not grown.
C36_EndlessWithoutCharge ==
    (pc = "budget" /\ t_budget = MaxBudgetTurns)
        => /\ Sum(input_b_l) <= 0
           /\ Sum([n \in Neurons |-> Floor(x_accum[n])]) <= 0

\* ---------------------------------------------------------------- C37

\* The batches the iterator hands to SNN.run when the clipping leaves more
\* than one event on a pixel (on the 64 x 64 raster, whenever 3 sigma >= 2):
\* up to MaxPending events at the addresses of the model.
PendingBatches == UNION {[1..n -> Addresses] : n \in 0..MaxPending}

\* The timestamps of a recording with two events per time unit.
dense_timestamp(i) == (i + 1) \div 2

\* SNN.run at the start of the time loop of a batch of event input: the
\* three queues as dvs_gen.__next__() returned them.
InitQueues ==
    /\ InitNetwork({c \in RunConfigs : c.input_mode = "dvs"}, "run", {1})
    /\ dvs_pc = "next"
    /\ dvs_sample_idx = 0
    /\ batch_idx = 1
    /\ \E batch \in PendingBatches :
          /\ dvs_sample = batch
          /\ num_events_of_sample = Len(batch)
          /\ x_b_xaddr = [k \in DOMAIN batch |-> batch[k][1]]
          /\ x_b_yaddr = [k \in DOMAIN batch |-> batch[k][2]]
          /\ x_b_ts = [k \in DOMAIN batch |-> dense_timestamp(k)]
          /\ dvs_obs = [op |-> "extract", raw |-> event_counts(batch),
                        clipped |-> event_counts(batch), discarded |-> 0]
    /\ run = run_batch([NoRun EXCEPT !.mismatch = FALSE], Zeros, label_of(0))

\* The time loop of SNN.run over one batch of events.
NextQueues == RunStep \/ RunBatchDone

SpecQueues == InitQueues /\ [][NextQueues]_vars

\* The pending events, as the three queues pair them up index by index.
Pending(xs, ys, ts) == [k \in DOMAIN ts |-> <<xs[k], ys[k], ts[k]>>]

\* Whether sequence a is sequence b with some of its entries taken out.
IsSubSeq(a, b) ==
    \E f \in [DOMAIN a -> DOMAIN b] :
       /\ \A i, j \in DOMAIN a : i < j => f[i] < f[j]
       /\ \A i \in DOMAIN a : a[i] = b[f[i]]

\* C37: while frames are extracted from the pending events of a sample the
\* three queues have one length and stay aligned index by index: the events
\* pending after a frame are events that were pending before it, unchanged
\* and in order, and each event admitted to the frame (one per pixel lit)
\* was removed exactly once.
C37_QueuesAligned ==
    [][FrameBuilt
          => /\ Len(x_b_xaddr') = Len(x_b_ts') /\ Len(x_b_yaddr') = Len(x_b_ts')
             /\ IsSubSeq(Pending(x_b_xaddr', x_b_yaddr', x_b_ts'),
                         Pending(x_b_xaddr, x_b_yaddr, x_b_ts))
             /\ Len(x_b_ts) - Len(x_b_ts')
                   = Cardinality({p \in Pixels : run'.inp[p] = 1})]_vars

\* What the three remove calls keep: the queues have one length, each lost
\* one entry per pixel lit, and each queue by itself holds entries it held
\* before, in order.
C37_QueuesKeepLength ==
    [][FrameBuilt
          => /\ Len(x_b_xaddr') = Len(x_b_ts') /\ Len(x_b_yaddr') = Len(x_b_ts')
             /\ IsSubSeq(x_b_xaddr', x_b_xaddr)
             /\ IsSubSeq(x_b_yaddr', x_b_yaddr)
             /\ IsSubSeq(x_b_ts', x_b_ts)
             /\ Len(x_b_ts) - Len(x_b_ts')
                   = Cardinality({p \in Pixels : run'.inp[p] = 1})]_vars

\* ---------------------------------------------------------------- C38

\* The iterator on an archive of longer recordings.
InitBatches == InitWith({[DefaultConfig EXCEPT !.recordings = "long"]})

SpecBatches == InitBatches /\ [][NextDVS]_vars

ModulusConfigs ==
    {c \in MainConfigs : Departures(c) \subseteq {"reset_between_nth_sample"}}

InitModulus == InitWith(ModulusConfigs)

SpecModulus == InitModulus /\ [][Next]_vars

\* Whether the reset is to fire for sample i under modulus N.
FiresFor(N, i) == IF N >= 1 THEN i % N = 0 ELSE i = 0

\* C39: the reset of a layer fires for sample i exactly when i mod N = 0, for
\* a reset modulus N >= 1; with N = 0 it fires for sample 0 only. Where it
\* fires, mem, mem_acc and mem_input are reinitialised and time is set to dt;
\* where it does not, the sample starts from the mem, mem_acc, mem_input and
\* time the previous sample left.
C39_ResetEveryNth ==
    [][(pc = "idle" /\ pc' = "ready")
          => \A l \in Layers :
                IF FiresFor(cfg.reset_between_nth_sample, sample_idx)
                THEN /\ layers'[l].mem = init_membrane_potential
                     /\ layers'[l].mem_acc = init_membrane_potential
                     /\ layers'[l].mem_input = init_membrane_potential
                     /\ layers'[l].time = cfg.dt
                ELSE /\ layers'[l].mem = layers[l].mem
                     /\ layers'[l].mem_acc = layers[l].mem_acc
                     /\ layers'[l].mem_input = layers[l].mem_input
                     /\ layers'[l].time = layers[l].time]_vars

\* with N = 0 the second sample starts from the potentials, the accumulator,
\* the input and the time the first sample left
C39_Witness ==
    /\ cfg.reset_between_nth_sample = 0
    /\ pc = "ready" /\ sample_idx = 1
    /\ layers[1].mem # init_membrane_potential
    /\ layers[1].mem_acc # init_membrane_potential
    /\ layers[1].mem_input # init_membrane_potential
    /\ layers[1].time = MaxSteps * cfg.dt
    /\ layers[1].time # cfg.dt

=============================================================================
